---- MODULE Spec2Model ----
(***************************************************************************)
(* Model of the cyberherd_messaging publish dispatcher and tag composer    *)
(* (src/services.py).  Python strings are sequences of one-character       *)
(* strings, so that strip(), lower(), startswith() and slicing are         *)
(* computed rather than assumed.  Python's None is the one-element         *)
(* sequence None, which is no string of characters.                        *)
(***************************************************************************)
EXTENDS Integers, Sequences, FiniteSets, TLC

VARIABLES
    user_key,                \* user setting nostr_private_key of the administrator (None = no row)
    setting,                 \* settings row nostr_publishing_enabled (None = row absent)
    nostrclient_available,   \* services._nostrclient_available: "None" | "True" | "False"
    lock,                    \* holder of _nostrclient_check_lock, 0 = free
    probes,                  \* number of executions of the import probe (history)
    pc,                      \* position of each publish_note coroutine
    call,                    \* arguments of the call in progress, per coroutine
    loc                      \* locals and call log of the call in progress

vars == <<user_key, setting, nostrclient_available, lock, probes, pc, call, loc>>

----------------------------------------------------------------------------
(* Bounds *)

NumTasks == 2
MaxETags == 3

Tasks == 1..NumTasks

----------------------------------------------------------------------------
(* Strings *)

None == <<"<None>">>

Rep(c, n) == [i \in 1..n |-> c]

Whitespace == {" ", "\t", "\n"}

UpperAlphabet == <<"A","B","C","D","E","F","G","H","I","J","K","L","M",
                   "N","O","P","Q","R","S","T","U","V","W","X","Y","Z">>
LowerAlphabet == <<"a","b","c","d","e","f","g","h","i","j","k","l","m",
                   "n","o","p","q","r","s","t","u","v","w","x","y","z">>

LowerChar(c) ==
    IF \E i \in 1..Len(UpperAlphabet) : UpperAlphabet[i] = c
    THEN LowerAlphabet[CHOOSE i \in 1..Len(UpperAlphabet) : UpperAlphabet[i] = c]
    ELSE c

\* str.lower()
Lower(s) == [i \in 1..Len(s) |-> LowerChar(s[i])]

RECURSIVE LStrip(_)
LStrip(s) == IF s # <<>> /\ Head(s) \in Whitespace THEN LStrip(Tail(s)) ELSE s

RECURSIVE RStrip(_)
RStrip(s) ==
    IF s # <<>> /\ s[Len(s)] \in Whitespace THEN RStrip(SubSeq(s, 1, Len(s) - 1)) ELSE s

\* str.strip()
Strip(s) == RStrip(LStrip(s))

\* str.startswith(prefix)
StartsWith(s, prefix) ==
    Len(s) >= Len(prefix) /\ SubSeq(s, 1, Len(prefix)) = prefix

\* s[n:]
DropPrefix(s, n) == SubSeq(s, n + 1, Len(s))

SeqToSet(s) == {s[i] : i \in 1..Len(s)}

\* the sequences over S of length at most n
RECURSIVE SeqsUpTo(_, _)
SeqsUpTo(S, n) ==
    IF n = 0 THEN {<<>>}
    ELSE LET shorter == SeqsUpTo(S, n - 1) IN
         shorter \cup {Append(q, x) : q \in shorter, x \in S}

S_wss == <<"w","s","s",":","/","/">>
S_ws == <<"w","s",":","/","/">>
S_https == <<"h","t","t","p","s",":","/","/">>
S_http == <<"h","t","t","p",":","/","/">>
S_30311 == <<"3","0","3","1","1",":">>

----------------------------------------------------------------------------
(* Tag composition: the synchronous part of publish_note *)

\* Python truthiness of an optional string
Truthy(s) == s # None /\ s # <<>>

\* normalize_relay_hint(raw): a websocket URL, or None
normalize_relay_hint(raw) ==
    IF ~Truthy(raw) THEN None
    ELSE LET s == Strip(raw) IN
         IF s = <<>> THEN None
         ELSE IF StartsWith(s, S_wss) \/ StartsWith(s, S_ws) THEN s
         ELSE IF StartsWith(s, S_https) THEN S_wss \o DropPrefix(s, Len(S_https))
         ELSE IF StartsWith(s, S_http) THEN S_ws \o DropPrefix(s, Len(S_http))
         ELSE None

\* tuple("" if part is None else str(part) for part in parts)
NormalizeParts(parts) == [i \in 1..Len(parts) |-> IF parts[i] = None THEN <<>> ELSE parts[i]]

\* mutant: a tuple inserted again moves to the end of the list
_add_tag_last_wins(all_tags, parts) ==
    LET normalized == NormalizeParts(parts)
        Other(tg) == tg # normalized
    IN  IF normalized = <<>> THEN all_tags
        ELSE Append(SelectSeq(all_tags, Other), normalized)

\* mutant: seen_tags is not consulted
_add_tag_appends(all_tags, parts) ==
    LET normalized == NormalizeParts(parts) IN
    IF normalized = <<>> THEN all_tags ELSE Append(all_tags, normalized)

\* publish_note._add_tag: seen_tags always holds exactly the members of all_tags
_add_tag(all_tags, parts) ==
    LET normalized == NormalizeParts(parts) IN
    IF normalized = <<>> THEN all_tags
    ELSE IF normalized \in SeqToSet(all_tags) THEN all_tags
    ELSE Append(all_tags, normalized)

RECURSIVE AddAll(_, _)
AddAll(all_tags, tagseq) ==
    IF tagseq = <<>> THEN all_tags
    ELSE AddAll(_add_tag(all_tags, Head(tagseq)), Tail(tagseq))

\* publish_note._append_unique
_append_unique(target, candidate) ==
    IF candidate = None THEN target
    ELSE LET value == Strip(candidate) IN
         IF value = <<>> THEN target
         ELSE IF value \notin SeqToSet(target) THEN Append(target, value)
         ELSE target

RECURSIVE AppendAllUnique(_, _)
AppendAllUnique(target, candidates) ==
    IF candidates = <<>> THEN target
    ELSE AppendAllUnique(_append_unique(target, Head(candidates)), Tail(candidates))

\* normalized_e_ids after lines 362-369
NormalizedEIds(e_tags, reply_to_30311_event) ==
    LET fromList == AppendAllUnique(<<>>, e_tags) IN
    IF Truthy(reply_to_30311_event)
    THEN _append_unique(fromList, reply_to_30311_event)
    ELSE fromList

HexDigits == {"0","1","2","3","4","5","6","7","8","9",
              "a","b","c","d","e","f","A","B","C","D","E","F"}

PubkeyLen == 64

\* message_builder.validate_pubkey_hex: strict 64-hex-character validation
validate_pubkey_hex(p) ==
    LET s == Strip(p) IN
    Len(s) = PubkeyLen /\ \A i \in 1..Len(s) : s[i] \in HexDigits

\* mutant: the entries that fail validation are kept too
RECURSIVE ValidatedPIdsUnfiltered(_)
ValidatedPIdsUnfiltered(ids) ==
    IF ids = <<>> THEN <<>>
    ELSE <<Lower(Strip(Head(ids)))>> \o ValidatedPIdsUnfiltered(Tail(ids))

\* validated_p_ids after lines 371-384
RECURSIVE ValidatedPIds(_)
ValidatedPIds(ids) ==
    IF ids = <<>> THEN <<>>
    ELSE IF validate_pubkey_hex(Head(ids))
         THEN <<Lower(Strip(Head(ids)))>> \o ValidatedPIds(Tail(ids))
         ELSE ValidatedPIds(Tail(ids))

S_e == <<"e">>
S_p == <<"p">>
S_a == <<"a">>
S_root == <<"r","o","o","t">>
S_reply == <<"r","e","p","l","y">>
S_mention == <<"m","e","n","t","i","o","n">>

\* mutant: a single event id is tagged both root and reply
EventTagsRootAndReply(ids, relay_hint) ==
    IF ids = <<>> THEN <<>>
    ELSE IF Len(ids) = 1
    THEN << <<S_e, ids[1], relay_hint, S_root>>, <<S_e, ids[1], relay_hint, S_reply>> >>
    ELSE << <<S_e, ids[1], relay_hint, S_root>>, <<S_e, ids[2], relay_hint, S_reply>> >>
         \o [i \in 1..(Len(ids) - 2) |-> <<S_e, ids[i + 2], <<>>, S_mention>>]

\* mutant: mention tags carry the relay hint too
EventTagsMentionHint(ids, relay_hint) ==
    IF ids = <<>> THEN <<>>
    ELSE IF Len(ids) = 1 THEN << <<S_e, ids[1], relay_hint, S_root>> >>
    ELSE << <<S_e, ids[1], relay_hint, S_root>>, <<S_e, ids[2], relay_hint, S_reply>> >>
         \o [i \in 1..(Len(ids) - 2) |-> <<S_e, ids[i + 2], relay_hint, S_mention>>]

\* the NIP-10 marked event tags of lines 388-406, in the order they are added
EventTags(ids, relay_hint) ==
    IF ids = <<>> THEN <<>>
    ELSE IF Len(ids) = 1 THEN << <<S_e, ids[1], relay_hint, S_root>> >>
    ELSE << <<S_e, ids[1], relay_hint, S_root>>, <<S_e, ids[2], relay_hint, S_reply>> >>
         \o [i \in 1..(Len(ids) - 2) |-> <<S_e, ids[i + 2], <<>>, S_mention>>]

\* mutant: the container tag is added before the pubkey tags
ComposeTagsContainerEarly(c) ==
    LET explicit == AddAll(<<>>, c.tags)
        e_ids == NormalizedEIds(c.e_tags, c.reply_to_30311_event)
        normalized_reply == normalize_relay_hint(c.reply_relay)
        relay_hint == IF Truthy(normalized_reply) THEN normalized_reply ELSE <<>>
        withE == AddAll(explicit, EventTags(e_ids, relay_hint))
        p_ids == ValidatedPIds(AppendAllUnique(<<>>, c.p_tags))
        candidate == IF Truthy(c.reply_to_30311_a_tag)
                     THEN Strip(c.reply_to_30311_a_tag) ELSE <<>>
        withA == IF candidate # <<>> THEN _add_tag(withE, <<S_a, candidate>>) ELSE withE
    IN  AddAll(withA, [i \in 1..Len(p_ids) |-> <<S_p, p_ids[i]>>])

\* all_tags of publish_note once line 415 has run
ComposeTags(c) ==
    LET explicit == AddAll(<<>>, c.tags)
        e_ids == NormalizedEIds(c.e_tags, c.reply_to_30311_event)
        normalized_reply == normalize_relay_hint(c.reply_relay)
        relay_hint == IF Truthy(normalized_reply) THEN normalized_reply ELSE <<>>
        withE == AddAll(explicit, EventTags(e_ids, relay_hint))
        p_ids == ValidatedPIds(AppendAllUnique(<<>>, c.p_tags))
        withP == AddAll(withE, [i \in 1..Len(p_ids) |-> <<S_p, p_ids[i]>>])
        candidate == IF Truthy(c.reply_to_30311_a_tag)
                     THEN Strip(c.reply_to_30311_a_tag) ELSE <<>>
    IN  IF candidate # <<>> THEN _add_tag(withP, <<S_a, candidate>>) ELSE withP

KindLiveChat == 1311
KindTextNote == 1

\* mutant: any container-reference tag selects the live-chat kind
EventKindAnyATag(formatted_tags) ==
    IF \E i \in 1..Len(formatted_tags) :
          Len(formatted_tags[i]) >= 2 /\ formatted_tags[i][1] = S_a
    THEN KindLiveChat ELSE KindTextNote

\* kind chosen at lines 426-430
EventKind(formatted_tags) ==
    IF \E i \in 1..Len(formatted_tags) :
          /\ Len(formatted_tags[i]) >= 2
          /\ formatted_tags[i][1] = S_a
          /\ StartsWith(formatted_tags[i][2], S_30311)
    THEN KindLiveChat ELSE KindTextNote

----------------------------------------------------------------------------
(* The publishing-enabled gate *)

S_0 == <<"0">>
S_1 == <<"1">>
S_false == <<"f","a","l","s","e">>
S_no == <<"n","o">>
S_off == <<"o","f","f">>

\* the tuple tested at services.py line 290
DisabledValues == {S_0, S_false, S_no, S_off, <<>>}

\* mutant: the value is compared as stored, neither trimmed nor lower-cased
DisabledBySettingRaw(setting_value) ==
    /\ setting_value # None
    /\ setting_value \in DisabledValues

\* lines 285-297 of is_nostr_publishing_enabled: TRUE when the value read
\* makes the function return False before the availability check
DisabledBySetting(setting_value) ==
    /\ setting_value # None
    /\ Lower(Strip(setting_value)) \in DisabledValues

\* values the settings row can hold: written by set_setting, by a migration
\* or by hand in the settings table
SettingValues ==
    { None, S_1, S_0, <<>>, <<" ","O","F","F"," ">>, <<"F","a","l","s","e">>,
      <<"n","o","\n">>, <<"y","e","s">>, <<"o","f","f","x">> }

----------------------------------------------------------------------------
(* Calls *)

S_w1 == <<"w","1">>
S_hi == <<"h","i">>
S_x == <<"x">>
S_y == <<"y">>
S_z == <<"z">>
S_a30311 == S_30311 \o <<"p",":","d">>
S_a30023 == <<"3","0","0","2","3",":","p",":","d">>
S_wssr == S_wss \o <<"r">>
S_httpsr == S_https \o <<"r">>
S_httpr == <<" ">> \o S_http \o <<"r">>
S_ftp == <<"f","t","p",":","/","/","r">>

NoArgs ==
    [ content |-> S_hi, tags |-> <<>>, e_tags |-> <<>>, p_tags |-> <<>>,
      reply_to_30311_event |-> None, reply_to_30311_a_tag |-> None,
      reply_relay |-> None, wallet_id |-> S_w1, private_key |-> None ]

\* a reply into a live container, signed for wallet w1
ReplyArgs ==
    [NoArgs EXCEPT !.e_tags = <<S_x>>, !.reply_to_30311_event = S_x,
                   !.reply_to_30311_a_tag = S_a30311, !.reply_relay = S_wssr]

\* arguments of the calls of the gate and dispatch specifications
DispatchArgs == { ReplyArgs, [NoArgs EXCEPT !.wallet_id = None],
                  [NoArgs EXCEPT !.wallet_id = <<>>] }

S_t == <<"t">>
S_sx == <<" ","x">>
ValidPubkey == Rep("a", PubkeyLen)
UpperPubkey == <<" ">> \o Rep("A", PubkeyLen)
ShortPubkey == Rep("a", PubkeyLen - 1)

\* explicit tag lists handed to publish_note
TagsInputs ==
    { <<>>,
      << <<S_t, S_x>> >>,
      << <<S_t, S_y>>, <<S_t, S_x>>, <<S_t, S_y>> >>,
      << <<S_t, None>>, <<S_t, <<>>>>, <<>> >>,
      << <<S_a, S_a30311>> >>,
      << <<S_a, S_a30023>>, <<S_p, ValidPubkey>> >>,
      << <<S_e, S_x, <<>>, S_root>> >>,
      << <<S_e, S_y, <<>>, S_reply>>, <<S_e, S_x, <<>>, S_mention>> >>,
      << <<S_e, S_z, S_wssr, S_root>>, <<S_e, S_z, S_wssr, S_reply>> >> }

EIdInputs == {S_x, S_sx, S_y}
ETagsInputs == SeqsUpTo(EIdInputs, MaxETags)
ReplyEventInputs == {None, S_x, S_z, <<" ">>}
ATagInputs == {None, S_a30311, <<" ">> \o S_a30311 \o <<" ">>, S_a30023}
RelayInputs == {None, S_wssr, S_httpsr, S_httpr, S_ftp}
PTagsInputs == { <<>>, <<ValidPubkey, ShortPubkey, UpperPubkey>> }

InitLoc ==
    [ enabled |-> "None", avail |-> "None", availCalled |-> FALSE,
      storedAtRead |-> None, readRaised |-> FALSE,
      bunkerTried |-> FALSE, signCalls |-> 0, signOutcome |-> "None",
      relayCalls |-> 0, relayOutcome |-> "None", signKey |-> <<>>,
      submitted |-> <<>>, wire |-> <<>>, result |-> "None" ]

\* the state of a freshly started process
Fresh ==
    /\ user_key = None
    /\ nostrclient_available = "None"
    /\ lock = 0
    /\ probes = 0
    /\ pc = [t \in Tasks |-> "idle"]
    /\ call = [t \in Tasks |-> NoArgs]
    /\ loc = [t \in Tasks |-> InitLoc]

Init == setting \in {None, S_0} /\ Fresh

BoolStr(b) == IF b THEN "True" ELSE "False"

\* mutant: a reading made by another call in progress is reused
get_setting_reused ==
    IF \E u \in Tasks : pc[u] # "idle"
    THEN loc[CHOOSE u \in Tasks : pc[u] # "idle"].storedAtRead
    ELSE setting

\* crud.get_setting("nostr_publishing_enabled"): the value of the row, None if absent
get_setting == setting

\* mutant: a settings read that raises, or an absent row, counts as disabled
PublishNoteFailClosed(t, args, readRaises) ==
    /\ pc[t] = "idle"
    /\ call' = [call EXCEPT ![t] = args]
    /\ LET l0 == [InitLoc EXCEPT !.storedAtRead = setting, !.readRaised = readRaises]
       IN IF readRaises \/ get_setting = None \/ DisabledBySetting(get_setting)
          THEN /\ loc' = [loc EXCEPT ![t] = [l0 EXCEPT !.enabled = "False", !.result = "True"]]
               /\ pc' = [pc EXCEPT ![t] = "done"]
          ELSE /\ loc' = [loc EXCEPT ![t] = [l0 EXCEPT !.availCalled = TRUE]]
               /\ pc' = [pc EXCEPT ![t] = "avail_check"]
    /\ UNCHANGED <<user_key, setting, nostrclient_available, lock, probes>>

\* publish_note is called; control runs to the first suspension point, the
\* settings read of is_nostr_publishing_enabled (lines 327, 279-304), which
\* returns the stored value or raises
PublishNote(t, args, readRaises) ==
    /\ pc[t] = "idle"
    /\ call' = [call EXCEPT ![t] = args]
    /\ LET l0 == [InitLoc EXCEPT !.storedAtRead = setting, !.readRaised = readRaises]
       IN IF ~readRaises /\ DisabledBySetting(get_setting)
          THEN \* line 292 returns False, line 329 returns True
               /\ loc' = [loc EXCEPT ![t] = [l0 EXCEPT !.enabled = "False", !.result = "True"]]
               /\ pc' = [pc EXCEPT ![t] = "done"]
          ELSE \* line 307: on to _is_nostrclient_available
               /\ loc' = [loc EXCEPT ![t] = [l0 EXCEPT !.availCalled = TRUE]]
               /\ pc' = [pc EXCEPT ![t] = "avail_check"]
    /\ UNCHANGED <<user_key, setting, nostrclient_available, lock, probes>>

\* _is_nostrclient_available, lines 78-79: the unlocked look at the cache
AvailCheck(t) ==
    /\ pc[t] = "avail_check"
    /\ IF nostrclient_available # "None"
       THEN /\ loc' = [loc EXCEPT ![t].avail = nostrclient_available]
            /\ pc' = [pc EXCEPT ![t] = "gate"]
       ELSE /\ pc' = [pc EXCEPT ![t] = "avail_acquire"]
            /\ UNCHANGED loc
    /\ UNCHANGED <<user_key, setting, nostrclient_available, lock, probes, call>>

\* line 81: async with _get_nostrclient_check_lock(), blocking while it is held
AvailAcquire(t) ==
    /\ pc[t] = "avail_acquire"
    /\ lock = 0
    /\ lock' = t
    /\ pc' = [pc EXCEPT ![t] = "avail_recheck"]
    /\ UNCHANGED <<user_key, setting, nostrclient_available, probes, call, loc>>

\* mutant: no second look at the cache once the lock is held
AvailRecheckSkipped(t) ==
    /\ pc[t] = "avail_recheck"
    /\ pc' = [pc EXCEPT ![t] = "avail_probe"]
    /\ UNCHANGED <<user_key, setting, nostrclient_available, lock, probes, call, loc>>

\* lines 82-83: the look at the cache under the lock
AvailRecheck(t) ==
    /\ pc[t] = "avail_recheck"
    /\ IF nostrclient_available # "None"
       THEN /\ loc' = [loc EXCEPT ![t].avail = nostrclient_available]
            /\ lock' = 0
            /\ pc' = [pc EXCEPT ![t] = "gate"]
       ELSE /\ pc' = [pc EXCEPT ![t] = "avail_probe"]
            /\ UNCHANGED <<loc, lock>>
    /\ UNCHANGED <<user_key, setting, nostrclient_available, probes, call>>

\* lines 85-95: the import probe, its result cached and returned, lock released
AvailProbe(t, importOk) ==
    /\ pc[t] = "avail_probe"
    /\ probes' = probes + 1
    /\ nostrclient_available' = BoolStr(importOk)
    /\ loc' = [loc EXCEPT ![t].avail = BoolStr(importOk)]
    /\ lock' = 0
    /\ pc' = [pc EXCEPT ![t] = "gate"]
    /\ UNCHANGED <<user_key, setting, call>>

Finish(t, l, res) ==
    /\ loc' = [loc EXCEPT ![t] = [l EXCEPT !.result = res]]
    /\ pc' = [pc EXCEPT ![t] = "done"]

\* publish_note lines 327-434 once the availability is known, up to the
\* suspension in sign_event (_try_bunker_sign_and_publish lines 109-123)
Dispatch(t, bunkerInstalled) ==
    /\ pc[t] = "gate"
    /\ LET l1 == [loc[t] EXCEPT !.enabled = loc[t].avail] IN
       IF l1.enabled = "False"
       THEN Finish(t, l1, "True")                      \* line 329
       ELSE LET formatted_tags == ComposeTags(call[t])
                kind == EventKind(formatted_tags)
                event == [kind |-> kind, tags |-> formatted_tags,
                          content |-> call[t].content]
                l2 == [l1 EXCEPT !.bunkerTried = TRUE]
            IN IF ~Truthy(call[t].wallet_id)
               THEN Finish(t, l2, "False")             \* lines 109-110, 442
               ELSE IF ~bunkerInstalled
               THEN Finish(t, l2, "False")             \* lines 114-116, 442
               ELSE /\ loc' = [loc EXCEPT ![t] =
                                 [l2 EXCEPT !.submitted = <<event>>, !.signCalls = @ + 1]]
                    /\ pc' = [pc EXCEPT ![t] = "sign"]
    /\ UNCHANGED <<user_key, setting, nostrclient_available, lock, probes, call>>

SignErrors == {"LookupError", "PermissionError", "Exception"}

\* mutant: only LookupError and PermissionError are caught
SignRaisesUncaught(t, err) ==
    /\ pc[t] = "sign"
    /\ Finish(t, [loc[t] EXCEPT !.signOutcome = err],
              IF err = "Exception" THEN "Raised" ELSE "False")
    /\ UNCHANGED <<user_key, setting, nostrclient_available, lock, probes, call>>

\* sign_event raises: lines 124-132, then 438-442
SignRaises(t, err) ==
    /\ pc[t] = "sign"
    /\ Finish(t, [loc[t] EXCEPT !.signOutcome = err], "False")
    /\ UNCHANGED <<user_key, setting, nostrclient_available, lock, probes, call>>

RelayOutcomes == {"ok", "import_error", "no_relay_manager", "publish_raises"}

\* sign_event returns the signed event: lines 135-155, then 435-442
SignReturns(t, relay) ==
    /\ pc[t] = "sign"
    /\ LET l1 == [loc[t] EXCEPT !.signOutcome = "signed", !.relayOutcome = relay]
           signed == [event |-> loc[t].submitted[1], sig |-> TRUE]
           l2 == [l1 EXCEPT !.relayCalls = @ + 1, !.wire = <<"EVENT", signed>>]
       IN CASE relay = "ok" -> Finish(t, l2, "True")
            [] relay = "publish_raises" -> Finish(t, l2, "False")
            [] OTHER -> Finish(t, l1, "False")
    /\ UNCHANGED <<user_key, setting, nostrclient_available, lock, probes, call>>

\* the caller receives the result; the coroutine is free for the next request
Return(t) ==
    /\ pc[t] = "done"
    /\ pc' = [pc EXCEPT ![t] = "idle"]
    /\ loc' = [loc EXCEPT ![t] = InitLoc]
    /\ call' = [call EXCEPT ![t] = NoArgs]
    /\ UNCHANGED <<user_key, setting, nostrclient_available, lock, probes>>

\* services._prepare_private_key is called by views_api.py line 780 but is
\* defined in no source file; it follows section 4.6 of the specification.

KeyLen == 64

S_0x == <<"0","x">>

\* mutant: any key with at least one hex digit is accepted
_prepare_private_key_unchecked(raw) ==
    IF ~Truthy(raw) THEN [hex_key |-> None, key_len |-> 0, key_err |-> "missing"]
    ELSE LET s == Strip(raw)
             body == IF StartsWith(Lower(s), S_0x) THEN DropPrefix(s, Len(S_0x)) ELSE s
             IsHex(c) == c \in HexDigits
             digits == SelectSeq(body, IsHex)
         IN IF Len(digits) < 1
            THEN [hex_key |-> None, key_len |-> Len(digits), key_err |-> "length"]
            ELSE [hex_key |-> IF Len(digits) > KeyLen THEN SubSeq(digits, 1, KeyLen)
                              ELSE digits,
                  key_len |-> Len(digits), key_err |-> "None"]

\* _prepare_private_key(raw) -> (hex_key, key_len, key_err): whitespace and
\* the 0x prefix stripped, the hex digits kept, at least 64 of them required,
\* the first 64 returned
_prepare_private_key(raw) ==
    IF ~Truthy(raw) THEN [hex_key |-> None, key_len |-> 0, key_err |-> "missing"]
    ELSE LET s == Strip(raw)
             body == IF StartsWith(Lower(s), S_0x) THEN DropPrefix(s, Len(S_0x)) ELSE s
             IsHex(c) == c \in HexDigits
             digits == SelectSeq(body, IsHex)
         IN IF Len(digits) < KeyLen
            THEN [hex_key |-> None, key_len |-> Len(digits), key_err |-> "length"]
            ELSE [hex_key |-> SubSeq(digits, 1, KeyLen), key_len |-> Len(digits),
                  key_err |-> "None"]

Key64 == Rep("a", KeyLen)
KeyShort == Rep("a", KeyLen - 1)
KeyPrefixed == S_0x \o Rep("b", KeyLen)
KeySpaced == <<" ">> \o Rep("c", KeyLen) \o <<"\n">>
KeyLong == Rep("d", KeyLen) \o <<"e","f">>
KeyDashed == Rep("1", KeyLen - 1) \o <<"-","2","3">>
KeyNsec == <<"n","s","e","c","1">> \o Rep("q", KeyLen)

KeyInputs == {None, <<>>, Key64, KeyShort, KeyPrefixed, KeySpaced, KeyLong, KeyDashed, KeyNsec}

\* api_update_settings, lines 768-786: the administrator's toggle, then the
\* user's key cleared, or sanitized and stored (an invalid key is answered
\* with 400 once the toggle is stored)
UpdateSettings(enabled, clear, key) ==
    /\ setting' = IF enabled = "None" THEN setting
                  ELSE IF enabled = "True" THEN S_1 ELSE S_0
    /\ user_key' =
          IF clear THEN None
          ELSE IF Truthy(key)
          THEN LET prepared == _prepare_private_key(key) IN
               IF prepared.key_err # "None" \/ ~Truthy(prepared.hex_key)
               THEN user_key ELSE prepared.hex_key
          ELSE user_key
    /\ UNCHANGED <<nostrclient_available, lock, probes, pc, call, loc>>

Next ==
    \/ \E t \in Tasks :
          /\ pc[t] = "idle"
          /\ \E readRaises \in BOOLEAN : PublishNote(t, ReplyArgs, readRaises)
    \/ \E t \in Tasks : AvailCheck(t)
    \/ \E t \in Tasks : AvailAcquire(t)
    \/ \E t \in Tasks : AvailRecheck(t)
    \/ \E t \in Tasks, importOk \in BOOLEAN : AvailProbe(t, importOk)
    \/ \E t \in Tasks, bunkerInstalled \in BOOLEAN : Dispatch(t, bunkerInstalled)
    \/ \E t \in Tasks, err \in SignErrors : SignRaises(t, err)
    \/ \E t \in Tasks, relay \in RelayOutcomes : SignReturns(t, relay)
    \/ \E t \in Tasks : Return(t)
    \/ \E enabled \in BOOLEAN : UpdateSettings(BoolStr(enabled), FALSE, None)

Spec == Init /\ [][Next]_vars

----------------------------------------------------------------------------
(* One coroutine publishing under every value the settings row can hold *)

GateInit == setting \in SettingValues /\ Fresh

GateNext ==
    \/ /\ pc[1] = "idle"
       /\ \E args \in DispatchArgs, readRaises \in BOOLEAN :
             PublishNote(1, args, readRaises)
    \/ AvailCheck(1)
    \/ AvailAcquire(1)
    \/ AvailRecheck(1)
    \/ \E importOk \in BOOLEAN : AvailProbe(1, importOk)
    \/ \E bunkerInstalled \in BOOLEAN : Dispatch(1, bunkerInstalled)
    \/ \E err \in SignErrors : SignRaises(1, err)
    \/ \E relay \in RelayOutcomes : SignReturns(1, relay)
    \/ Return(1)

GateSpec == GateInit /\ [][GateNext]_vars

----------------------------------------------------------------------------
(* One coroutine composing and publishing over all argument combinations,   *)
(* with publishing enabled, the availability cached and the signer and the  *)
(* relay answering.                                                         *)

ComposeInit ==
    /\ user_key = None
    /\ setting = S_1
    /\ nostrclient_available = "True"
    /\ lock = 0
    /\ probes = 1
    /\ pc = [t \in Tasks |-> "idle"]
    /\ call = [t \in Tasks |-> NoArgs]
    /\ loc = [t \in Tasks |-> InitLoc]

ComposeNext ==
    \/ /\ pc[1] = "idle"
       /\ \E tags \in TagsInputs, e_tags \in ETagsInputs, p_tags \in PTagsInputs,
             ev \in ReplyEventInputs, a_tag \in ATagInputs, relay \in RelayInputs :
             PublishNote(1, [NoArgs EXCEPT !.tags = tags, !.e_tags = e_tags,
                                           !.p_tags = p_tags,
                                           !.reply_to_30311_event = ev,
                                           !.reply_to_30311_a_tag = a_tag,
                                           !.reply_relay = relay], FALSE)
    \/ AvailCheck(1)
    \/ Dispatch(1, TRUE)
    \/ SignReturns(1, "ok")
    \/ Return(1)

ComposeSpec == ComposeInit /\ [][ComposeNext]_vars

----------------------------------------------------------------------------
(* One coroutine composing over explicit tags that repeat, and that bring   *)
(* threading and container tuples of their own, next to reply ids, pubkeys  *)
(* and a container reference.                                               *)

NonHexPubkey == Rep("a", PubkeyLen - 1) \o <<"g">>
LongPubkey == Rep("b", PubkeyLen + 1)
OtherPubkey == Rep("c", PubkeyLen)

TagETagsInputs == { <<>>, <<S_x>>, <<S_sx, S_x, S_y>>, <<S_y, S_z, S_x>>, <<S_z, S_y>> }

TagPTagsInputs ==
    { <<>>,
      <<ValidPubkey, ShortPubkey, UpperPubkey>>,
      <<NonHexPubkey, OtherPubkey, LongPubkey, <<>>, ValidPubkey>>,
      <<NonHexPubkey>> }

TagRelayInputs == {None, S_wssr, S_ftp}

TagNext ==
    \/ /\ pc[1] = "idle"
       /\ \E tags \in TagsInputs, e_tags \in TagETagsInputs, p_tags \in TagPTagsInputs,
             ev \in ReplyEventInputs, a_tag \in ATagInputs, relay \in TagRelayInputs :
             PublishNote(1, [NoArgs EXCEPT !.tags = tags, !.e_tags = e_tags,
                                           !.p_tags = p_tags,
                                           !.reply_to_30311_event = ev,
                                           !.reply_to_30311_a_tag = a_tag,
                                           !.reply_relay = relay], FALSE)
    \/ AvailCheck(1)
    \/ Dispatch(1, TRUE)
    \/ \E relay \in {"ok", "publish_raises"} : SignReturns(1, relay)
    \/ Return(1)

TagSpec == ComposeInit /\ [][TagNext]_vars

----------------------------------------------------------------------------
(* The local-key signing path.  The local signer create_and_sign_event is   *)
(* used by the tests but, like _prepare_private_key, defined in no source   *)
(* file; the path follows section 4.6 of the specification.                 *)

\* publish_note on the local-key path once the availability is known: the
\* gate of lines 327-329, then sanitization, composition, the local signer
\* and the relay transport
LocalDispatch(t, signerOk, relayOk) ==
    /\ pc[t] = "gate"
    /\ LET l1 == [loc[t] EXCEPT !.enabled = loc[t].avail] IN
       IF l1.enabled = "False"
       THEN Finish(t, l1, "True")
       ELSE LET prepared == _prepare_private_key(call[t].private_key) IN
            IF prepared.key_err # "None"
            THEN Finish(t, l1, "False")
            ELSE LET formatted_tags == ComposeTags(call[t])
                     event == [kind |-> EventKind(formatted_tags),
                               tags |-> formatted_tags, content |-> call[t].content]
                     l2 == [l1 EXCEPT !.submitted = <<event>>, !.signCalls = @ + 1,
                                      !.signKey = prepared.hex_key]
                     l3 == [l2 EXCEPT !.signOutcome = "signed", !.relayCalls = @ + 1,
                                      !.relayOutcome = IF relayOk THEN "ok" ELSE "publish_raises",
                                      !.wire = <<"EVENT", [event |-> event, sig |-> TRUE]>>]
                 IN IF ~signerOk
                    THEN Finish(t, [l2 EXCEPT !.signOutcome = "Exception"], "False")
                    ELSE Finish(t, l3, BoolStr(relayOk))
    /\ UNCHANGED <<user_key, setting, nostrclient_available, lock, probes, call>>

LocalInit == setting \in {None, S_1} /\ Fresh

LocalNext ==
    \/ /\ pc[1] = "idle"
       /\ \E key \in KeyInputs, args \in {NoArgs, ReplyArgs} :
             PublishNote(1, [args EXCEPT !.wallet_id = None, !.private_key = key], FALSE)
    \/ AvailCheck(1)
    \/ AvailAcquire(1)
    \/ AvailRecheck(1)
    \/ \E importOk \in BOOLEAN : AvailProbe(1, importOk)
    \/ \E signerOk, relayOk \in BOOLEAN : LocalDispatch(1, signerOk, relayOk)
    \/ Return(1)
    \/ \E clear \in BOOLEAN, key \in {None, KeyShort, KeySpaced, KeyLong} :
          UpdateSettings("None", clear, key)

LocalKeySpec == LocalInit /\ [][LocalNext]_vars

----------------------------------------------------------------------------
(* The reference codec of message_builder.py *)

\* a value that is no str (an int, a dict), as isinstance(..., str) sees it
NotAString == <<"<NotAString>">>

IsStr(v) == v # None /\ v # NotAString

RefLen == 64

HexLower == <<"0","1","2","3","4","5","6","7","8","9","a","b","c","d","e","f">>

\* the value of a hex digit
HexVal(c) == (CHOOSE i \in 1..16 : HexLower[i] = LowerChar(c)) - 1

\* bytes.fromhex(s): whitespace between the two-digit bytes is skipped,
\* anything else that is no pair of hex digits raises ValueError
RECURSIVE bytes_fromhex(_)
bytes_fromhex(s) ==
    IF s = <<>> THEN [ok |-> TRUE, bytes |-> <<>>]
    ELSE IF Head(s) \in Whitespace THEN bytes_fromhex(Tail(s))
    ELSE IF Len(s) >= 2 /\ s[1] \in HexDigits /\ s[2] \in HexDigits
    THEN LET rest == bytes_fromhex(SubSeq(s, 3, Len(s))) IN
         [ok |-> rest.ok,
          bytes |-> IF rest.ok THEN <<16 * HexVal(s[1]) + HexVal(s[2])>> \o rest.bytes
                    ELSE <<>>]
    ELSE [ok |-> FALSE, bytes |-> <<>>]

\* bit k (1 = most significant) of a byte
BitOf(byte, k) == (byte \div (2 ^ (8 - k))) % 2

\* bech32.convertbits(raw, 8, 5, True): the bits of the bytes regrouped in
\* fives, the last group padded with zeros
convertbits(raw) ==
    LET nbits == 8 * Len(raw)
        ngroups == (nbits + 4) \div 5
        Bit(n) == IF n > nbits THEN 0 ELSE BitOf(raw[((n - 1) \div 8) + 1], ((n - 1) % 8) + 1)
    IN [g \in 1..ngroups |->
          16 * Bit(5 * g - 4) + 8 * Bit(5 * g - 3) + 4 * Bit(5 * g - 2)
          + 2 * Bit(5 * g - 1) + Bit(5 * g)]

Bech32Charset == <<"q","p","z","r","y","9","x","8","g","f","2","t","v","d","w","0","s","3","j","n","5","4","k","h","c","e","6","m","u","a","7","l">>

S_note == <<"n","o","t","e">>
S_npub == <<"n","p","u","b">>

\* bech32.bech32_encode(hrp, data): the prefix, the separator and the data in
\* the bech32 alphabet; the six checksum characters that follow are left out
bech32_encode(hrp, data) ==
    hrp \o <<"1">> \o [i \in 1..Len(data) |-> Bech32Charset[data[i] + 1]]

\* message_builder.format_nostr_event_reference
format_nostr_event_reference(event_id) ==
    IF ~IsStr(event_id) \/ event_id = <<>> THEN None
    ELSE LET candidate == Lower(Strip(event_id)) IN
         IF Len(candidate) # RefLen THEN None
         ELSE LET raw == bytes_fromhex(candidate) IN
              IF ~raw.ok THEN None
              ELSE LET data == convertbits(raw.bytes) IN
                   IF data = <<>> THEN None ELSE bech32_encode(S_note, data)

\* lnbits.utils.nostr.hex_to_npub as line 72 uses it: the npub of 64 hex
\* digits; any other argument makes it raise
hex_to_npub(candidate) ==
    IF Len(candidate) = RefLen /\ \A i \in 1..Len(candidate) : candidate[i] \in HexDigits
    THEN [raised |-> FALSE,
          value |-> bech32_encode(S_npub, convertbits(bytes_fromhex(candidate).bytes))]
    ELSE [raised |-> TRUE, value |-> None]

\* message_builder.format_nostr_pubkey
format_nostr_pubkey(pubkey) ==
    IF ~IsStr(pubkey) \/ pubkey = <<>> THEN None
    ELSE LET candidate == Lower(Strip(pubkey)) IN
         IF Len(candidate) # RefLen THEN None
         ELSE LET npub == hex_to_npub(candidate) IN
              IF npub.raised THEN None ELSE npub.value

\* identifiers handed to the codec: bodies, each between leading and trailing
\* whitespace
RefBodies ==
    { <<>>,
      Rep("a", 64),
      Rep("A", 32) \o Rep("0", 32),
      Rep("a", 63),
      Rep("a", 65),
      Rep("a", 63) \o <<"g">>,
      <<"0","x">> \o Rep("a", 62),
      Rep("a", 30) \o <<" ">> \o Rep("b", 2) \o <<" ">> \o Rep("c", 30),
      Rep("a", 31) \o <<" ">> \o Rep("b", 32),
      Rep("a", 32) \o <<"\n">> \o Rep("b", 32),
      Rep("1", 62) \o <<"-","2">> }

RefInputs ==
    {None, NotAString}
    \cup { pre \o body \o post : pre \in {<<>>, <<" ">>, <<"\n","\t">>},
                                   body \in RefBodies, post \in {<<>>, <<" ">>} }

\* one call of a codec function: the reference, or None, is returned
EncodeReference(t, fn, id) ==
    /\ pc[t] = "idle"
    /\ call' = [call EXCEPT ![t] = [op |-> fn, id |-> id]]
    /\ loc' = [loc EXCEPT ![t] =
                 [ref |-> IF fn = "format_nostr_event_reference"
                          THEN format_nostr_event_reference(id)
                          ELSE format_nostr_pubkey(id)] @@ [InitLoc EXCEPT !.result = "Returned"]]
    /\ pc' = [pc EXCEPT ![t] = "done"]
    /\ UNCHANGED <<user_key, setting, nostrclient_available, lock, probes>>

CodecNext ==
    \/ /\ pc[1] = "idle"
       /\ \E fn \in {"format_nostr_event_reference", "format_nostr_pubkey"},
             id \in RefInputs : EncodeReference(1, fn, id)
    \/ Return(1)

CodecSpec == ComposeInit /\ [][CodecNext]_vars

----------------------------------------------------------------------------
(* Templates: rendering.  The templates of the model use no conversion       *)
(* ("!r") and no format specification (":>8") in a replacement field, no     *)
(* brace inside one, and no backslash.                                       *)

Min(S) == CHOOSE x \in S : \A y \in S : x <= y

\* the first index at or after i whose character is in C, 0 when there is none
FirstIndex(s, i, C) ==
    LET found == {k \in i..Len(s) : s[k] \in C} IN
    IF found = {} THEN 0 ELSE Min(found)

Digits == {"0","1","2","3","4","5","6","7","8","9"}

IdentChars == SeqToSet(LowerAlphabet) \cup SeqToSet(UpperAlphabet) \cup {"_"}

\* str.isidentifier()
isidentifier(s) ==
    /\ s # <<>>
    /\ s[1] \in IdentChars
    /\ \A i \in 1..Len(s) : s[i] \in IdentChars \cup Digits

AllDigits(s) == s # <<>> /\ \A i \in 1..Len(s) : s[i] \in Digits

RECURSIVE DigitsToInt(_)
DigitsToInt(s) ==
    IF s = <<>> THEN 0
    ELSE 10 * DigitsToInt(SubSeq(s, 1, Len(s) - 1)) + HexVal(s[Len(s)])

\* a Python value: its type, the text str() gives for it, its truth value
Value(kind, text, truthy) == [kind |-> kind, text |-> text, truthy |-> truthy]
StrVal(text) == Value("str", text, text # <<>>)
IntVal(text) == Value("int", text, text # <<"0">>)

\* a dict as the sequence of its <<key, value>> items, keys distinct
HasKey(d, key) == \E i \in 1..Len(d) : d[i][1] = key
Get(d, key) == d[CHOOSE i \in 1..Len(d) : d[i][1] = key][2]

\* d with d[key] = value
SetKey(d, key, value) ==
    IF HasKey(d, key)
    THEN [i \in 1..Len(d) |-> IF d[i][1] = key THEN <<key, value>> ELSE d[i]]
    ELSE Append(d, <<key, value>>)

RenderError == [raised |-> TRUE, text |-> <<>>]
Rendered(text) == [raised |-> FALSE, text |-> text]

S_dunder_class == <<".","_","_","c","l","a","s","s","_","_">>
S_class_str == <<"<","c","l","a","s","s"," ","'","s","t","r","'",">">>
S_class_int == <<"<","c","l","a","s","s"," ","'","i","n","t","'",">">>

\* mutant: a name that is absent from the context is blanked
get_field_blanking(field_name, kwargs) ==
    LET name == IF field_name = <<>> THEN <<"0">> ELSE field_name IN
    IF ~isidentifier(name) THEN RenderError
    ELSE IF HasKey(kwargs, name) THEN Rendered(Get(kwargs, name).text)
    ELSE Rendered(<<>>)

\* _SafeFormatter.get_field and the formatting of what it returns (an empty
\* field name is numbered "0" by vformat before get_field sees it)
get_field(field_name, kwargs) ==
    LET name == IF field_name = <<>> THEN <<"0">> ELSE field_name IN
    IF ~isidentifier(name) THEN RenderError
    ELSE IF HasKey(kwargs, name) THEN Rendered(Get(kwargs, name).text)
    ELSE Rendered(<<"{">> \o name \o <<"}">>)

\* the field lookup of str.format(**kwargs): a name, then attribute or index
\* access on its value; KeyError, IndexError, AttributeError and TypeError
\* are the result raised
str_get_field(field_name, kwargs) ==
    LET cut == FirstIndex(field_name, 1, {".", "["})
        first == IF cut = 0 THEN field_name ELSE SubSeq(field_name, 1, cut - 1)
        rest == IF cut = 0 THEN <<>> ELSE SubSeq(field_name, cut, Len(field_name))
    IN  IF first = <<>> \/ AllDigits(first) THEN RenderError
        ELSE IF ~HasKey(kwargs, first) THEN RenderError
        ELSE LET v == Get(kwargs, first) IN
             IF rest = <<>> THEN Rendered(v.text)
             ELSE IF rest = S_dunder_class
             THEN Rendered(IF v.kind = "str" THEN S_class_str ELSE S_class_int)
             ELSE IF /\ Len(rest) >= 3 /\ rest[1] = "[" /\ rest[Len(rest)] = "]"
                     /\ AllDigits(SubSeq(rest, 2, Len(rest) - 1))
                     /\ v.kind = "str"
                     /\ DigitsToInt(SubSeq(rest, 2, Len(rest) - 1)) < Len(v.text)
             THEN Rendered(<<v.text[DigitsToInt(SubSeq(rest, 2, Len(rest) - 1)) + 1]>>)
             ELSE RenderError

\* string.Formatter.vformat and str.format from position i on: the literal
\* text up to the next brace, the doubled braces, and the replacement fields;
\* safe selects get_field of _SafeFormatter
RECURSIVE vformat(_, _, _, _)
vformat(s, i, safe, kwargs) ==
    LET brace == FirstIndex(s, i, {"{", "}"}) IN
    IF brace = 0 THEN Rendered(SubSeq(s, i, Len(s)))
    ELSE LET Then(text, next) ==
                 LET rest == vformat(s, next, safe, kwargs) IN
                 IF rest.raised THEN RenderError
                 ELSE Rendered(SubSeq(s, i, brace - 1) \o text \o rest.text)
         IN  IF s[brace] = "{"
             THEN IF brace < Len(s) /\ s[brace + 1] = "{" THEN Then(<<"{">>, brace + 2)
                  ELSE LET close == FirstIndex(s, brace + 1, {"}"}) IN
                       IF close = 0 THEN RenderError
                       ELSE LET field_name == SubSeq(s, brace + 1, close - 1)
                                obj == IF safe THEN get_field(field_name, kwargs)
                                       ELSE str_get_field(field_name, kwargs)
                            IN IF obj.raised THEN RenderError
                               ELSE Then(obj.text, close + 1)
             ELSE IF brace < Len(s) /\ s[brace + 1] = "}" THEN Then(<<"}">>, brace + 2)
             ELSE RenderError

\* _safe_fmt.format(template, **values)
safe_format(template, values) == vformat(template, 1, TRUE, values)

\* template.format(**kwargs)
str_format(template, kwargs) == vformat(template, 1, FALSE, kwargs)

----------------------------------------------------------------------------
(* Templates: unwrapping of stored template text,                            *)
(* render_and_publish_template._extract_content_and_reply.  The parsers      *)
(* read the flat objects the stored wrappers are: string keys, and values    *)
(* that are strings without escapes, unsigned integers or one of the three   *)
(* literal words.  A Python value is carried as the text str() gives for it  *)
(* and its truth value.                                                      *)

\* the character at index i, "" past the end
At(s, i) == IF i \in 1..Len(s) THEN s[i] ELSE ""

StartsWithAt(s, i, word) ==
    /\ i >= 1
    /\ i + Len(word) - 1 <= Len(s)
    /\ SubSeq(s, i, i + Len(word) - 1) = word

\* the first index at or after i that is not whitespace
SkipWs(s, i) == LET rest == {k \in i..Len(s) : s[k] \notin Whitespace} IN
                IF rest = {} THEN Len(s) + 1 ELSE Min(rest)

NoneValue == Value("none", <<"N","o","n","e">>, FALSE)

S_content == <<"c","o","n","t","e","n","t">>
S_reply_relay == <<"r","e","p","l","y","_","r","e","l","a","y">>

\* json.loads: double quotes, null/true/false, no control character in a string
JsonSyntax ==
    [quotes |-> {"\""}, control |-> {"\n", "\t"}, trailing |-> FALSE,
     words |-> << <<<<"n","u","l","l">>, NoneValue>>,
                  <<<<"t","r","u","e">>, Value("bool", <<"T","r","u","e">>, TRUE)>>,
                  <<<<"f","a","l","s","e">>, Value("bool", <<"F","a","l","s","e">>, FALSE)>> >>]

\* ast.literal_eval: either quote, None/True/False, a trailing comma
LiteralSyntax ==
    [quotes |-> {"'", "\""}, control |-> {"\n"}, trailing |-> TRUE,
     words |-> << <<<<"N","o","n","e">>, NoneValue>>,
                  <<<<"T","r","u","e">>, Value("bool", <<"T","r","u","e">>, TRUE)>>,
                  <<<<"F","a","l","s","e">>, Value("bool", <<"F","a","l","s","e">>, FALSE)>> >>]

ParseFail == [ok |-> FALSE, value |-> NoneValue, next |-> 0]
Parsed(value, next) == [ok |-> TRUE, value |-> value, next |-> next]

\* one string, integer or literal word starting at index i
ParseScalar(s, i, syntax) ==
    IF At(s, i) \in syntax.quotes
    THEN LET close == FirstIndex(s, i + 1, {s[i]}) IN
         IF close = 0 \/ \E k \in (i + 1)..(close - 1) : s[k] \in syntax.control
         THEN ParseFail
         ELSE Parsed(Value("str", SubSeq(s, i + 1, close - 1), close > i + 1), close + 1)
    ELSE IF At(s, i) \in Digits
    THEN LET stop == FirstIndex(s \o <<"">>, i, {c \in SeqToSet(s) \cup {""} : c \notin Digits})
             text == SubSeq(s, i, stop - 1)
         IN  IF Len(text) > 1 /\ text[1] = "0" THEN ParseFail
             ELSE Parsed(Value("int", text, text # <<"0">>), stop)
    ELSE IF \E w \in 1..Len(syntax.words) : StartsWithAt(s, i, syntax.words[w][1])
    THEN LET w == CHOOSE w \in 1..Len(syntax.words) : StartsWithAt(s, i, syntax.words[w][1])
         IN  Parsed(syntax.words[w][2], i + Len(syntax.words[w][1]))
    ELSE ParseFail

NotADict == [ok |-> FALSE, items |-> <<>>]

\* the members of an object from index i on, up to the closing brace, which
\* must end the text
RECURSIVE ParseMembers(_, _, _, _)
ParseMembers(s, i, syntax, items) ==
    LET key == ParseScalar(s, i, syntax)
        colon == SkipWs(s, key.next)
        val == ParseScalar(s, SkipWs(s, colon + 1), syntax)
        sep == SkipWs(s, val.next)
        more == SkipWs(s, sep + 1)
        parsed == SetKey(items, key.value.text, val.value)
    IN  IF ~key.ok \/ key.value.kind # "str" THEN NotADict
        ELSE IF At(s, colon) # ":" THEN NotADict
        ELSE IF ~val.ok THEN NotADict
        ELSE IF At(s, sep) = "}"
        THEN IF sep = Len(s) THEN [ok |-> TRUE, items |-> parsed] ELSE NotADict
        ELSE IF At(s, sep) # "," THEN NotADict
        ELSE IF At(s, more) = "}"
        THEN IF syntax.trailing /\ more = Len(s)
             THEN [ok |-> TRUE, items |-> parsed] ELSE NotADict
        ELSE ParseMembers(s, more, syntax, parsed)

\* the parse of s when it yields a dict; a parse error and a parse to
\* something else are both answered NotADict
ParseDict(s, syntax) ==
    IF At(s, 1) # "{" THEN NotADict
    ELSE IF At(s, SkipWs(s, 2)) = "}"
    THEN IF SkipWs(s, 2) = Len(s) THEN [ok |-> TRUE, items |-> <<>>] ELSE NotADict
    ELSE ParseMembers(s, SkipWs(s, 2), syntax, <<>>)

\* s.replace("'", '"')
ReplaceQuotes(s) == [i \in 1..Len(s) |-> IF s[i] = "'" THEN "\"" ELSE s[i]]

NoContent == [ok |-> FALSE, content |-> <<>>, reply |-> None]
Content(content, reply) == [ok |-> TRUE, content |-> content, reply |-> reply]

\* parsed.get("content") or "" and parsed.get("reply_relay"), for a parsed
\* dict that has the key "content"
ContentOfDict(parsed) ==
    IF ~parsed.ok \/ ~HasKey(parsed.items, S_content) THEN NoContent
    ELSE Content(IF Get(parsed.items, S_content).truthy
                 THEN Get(parsed.items, S_content).text ELSE <<>>,
                 IF /\ HasKey(parsed.items, S_reply_relay)
                    /\ Get(parsed.items, S_reply_relay).kind # "none"
                 THEN Get(parsed.items, S_reply_relay).text ELSE None)

\* lines 671-676
StrictJson(s) == ContentOfDict(ParseDict(s, JsonSyntax))

\* lines 679-684
LiteralParse(s) == ContentOfDict(ParseDict(s, LiteralSyntax))

\* lines 688-695
QuoteRepairedJson(s) ==
    IF At(s, 1) = "{" /\ At(s, Len(s)) = "}"
    THEN ContentOfDict(ParseDict(ReplaceQuotes(s), JsonSyntax))
    ELSE NoContent

Quotes == {"'", "\""}

NoMatch == [found |-> FALSE, group |-> <<>>]
Match(group) == [found |-> TRUE, group |-> group]

\* re.search(r"['\"]KEY['\"]\s*:\s*['\"](.*?)['\"]\s*(?:,|})", s, re.DOTALL):
\* the match that starts at index k, its group the shortest that lets the
\* rest of the pattern match
StrictMatchAt(s, key, k) ==
    LET colon == SkipWs(s, k + Len(key) + 2)
        open == SkipWs(s, colon + 1)
        ends == {e \in (open + 1)..Len(s) :
                   s[e] \in Quotes /\ At(s, SkipWs(s, e + 1)) \in {",", "}"}}
    IN  IF /\ At(s, k) \in Quotes
           /\ StartsWithAt(s, k + 1, key)
           /\ At(s, k + Len(key) + 1) \in Quotes
           /\ At(s, colon) = ":"
           /\ At(s, open) \in Quotes
           /\ ends # {}
        THEN Match(SubSeq(s, open + 1, Min(ends) - 1))
        ELSE NoMatch

\* the leftmost match
StrictSearch(s, key) ==
    LET starts == {k \in 1..Len(s) : StrictMatchAt(s, key, k).found} IN
    IF starts = {} THEN NoMatch ELSE StrictMatchAt(s, key, Min(starts))

\* re.search(r"KEY\s*:\s*(['\"]?)(.*?)\1\s*(?:,|})", s, re.DOTALL): with the
\* optional quote taken when that lets the pattern match, without it otherwise
LooseMatchAt(s, key, k) ==
    LET colon == SkipWs(s, k + Len(key))
        open == SkipWs(s, colon + 1)
        quoted == {e \in (open + 1)..Len(s) :
                     s[e] = At(s, open) /\ At(s, SkipWs(s, e + 1)) \in {",", "}"}}
        bare == {e \in open..Len(s) : At(s, SkipWs(s, e)) \in {",", "}"}}
    IN  IF ~(StartsWithAt(s, k, key) /\ At(s, colon) = ":") THEN NoMatch
        ELSE IF At(s, open) \in Quotes /\ quoted # {}
        THEN Match(SubSeq(s, open + 1, Min(quoted) - 1))
        ELSE IF bare # {} THEN Match(SubSeq(s, open, Min(bare) - 1))
        ELSE NoMatch

LooseSearch(s, key) ==
    LET starts == {k \in 1..Len(s) : LooseMatchAt(s, key, k).found} IN
    IF starts = {} THEN NoMatch ELSE LooseMatchAt(s, key, Min(starts))

\* lines 698-740: the strict patterns, then the loose ones
RegexExtraction(s) ==
    LET m == StrictSearch(s, S_content)
        m2 == StrictSearch(s, S_reply_relay)
        m_loose == LooseSearch(s, S_content)
        rr_loose == LooseSearch(s, S_reply_relay)
    IN  IF m.found /\ m.group # <<>>
        THEN Content(m.group, IF m2.found THEN Strip(m2.group) ELSE None)
        ELSE IF m_loose.found /\ Strip(m_loose.group) # <<>>
        THEN Content(Strip(m_loose.group),
                     IF rr_loose.found THEN Strip(rr_loose.group) ELSE None)
        ELSE NoContent

\* lines 746
looks_like_dict(s) ==
    At(s, 1) = "{" /\ At(s, Len(s)) = "}" /\ ":" \in SeqToSet(s)

\* mutant: text that no stage recovers content from is returned as it is
_extract_content_and_reply_verbatim(raw) ==
    LET s == Strip(raw) IN
    IF raw = None THEN Content(<<>>, None)
    ELSE IF StrictJson(s).ok THEN StrictJson(s)
    ELSE IF LiteralParse(s).ok THEN LiteralParse(s)
    ELSE IF QuoteRepairedJson(s).ok THEN QuoteRepairedJson(s)
    ELSE IF RegexExtraction(s).ok THEN RegexExtraction(s)
    ELSE Content(s, None)

\* _extract_content_and_reply(raw) for raw a str or None
_extract_content_and_reply(raw) ==
    LET s == Strip(raw) IN
    IF raw = None THEN Content(<<>>, None)
    ELSE IF StrictJson(s).ok THEN StrictJson(s)
    ELSE IF LiteralParse(s).ok THEN LiteralParse(s)
    ELSE IF QuoteRepairedJson(s).ok THEN QuoteRepairedJson(s)
    ELSE IF RegexExtraction(s).ok THEN RegexExtraction(s)
    ELSE IF looks_like_dict(s) THEN Content(<<>>, None)
    ELSE Content(s, None)

----------------------------------------------------------------------------
(* Message building, message_builder.py.  A character outside the basic      *)
(* plane is written as one element naming its code point ("U+1F4B0").        *)

\* sub in s
Contains(s, sub) == \E i \in 1..(Len(s) - Len(sub) + 1) : StartsWithAt(s, i, sub)

\* s.replace(old, new), old not empty
RECURSIVE Replace(_, _, _)
Replace(s, old, new) ==
    LET hits == {i \in 1..(Len(s) - Len(old) + 1) : StartsWithAt(s, i, old)} IN
    IF hits = {} THEN s
    ELSE SubSeq(s, 1, Min(hits) - 1) \o new
         \o Replace(SubSeq(s, Min(hits) + Len(old), Len(s)), old, new)

RECURSIVE Join(_, _)
Join(items, sep) ==
    IF items = <<>> THEN <<>>
    ELSE IF Len(items) = 1 THEN items[1]
    ELSE items[1] \o sep \o Join(Tail(items), sep)

\* utils.join_with_and
join_with_and(items) ==
    IF items = <<>> THEN <<>>
    ELSE IF Len(items) = 1 THEN items[1]
    ELSE Join(SubSeq(items, 1, Len(items) - 1), <<","," ">>) \o <<" ","a","n","d"," ">> \o items[Len(items)]

\* a template of a pool: a str, or a dict with content and reply_relay
StrTemplate(text) == [kind |-> "str", content |-> text, reply_relay |-> None]
DictTemplate(content, reply_relay) ==
    [kind |-> "dict", content |-> content, reply_relay |-> reply_relay]

\* defaults.py: name, profile and pubkey of each goat, in the order of the dict
GOAT_NAMES_DICT ==
    <<
      <<<<"D","e","x","t","e","r">>,
        <<"n","o","s","t","r",":","n","p","r","o","f","i","l","e","1","q","q",
          "s","w","4","z","l","z","y","f","x","4","3","m","c","8","8","p","s",
          "n","l","s","e","8","s","y","w","p","f","l","4","5","k","u","a","p",
          "9","d","y","0","5","y","z","k","e","p","k","v","u","6","c","a","5",
          "w","g","7","q","y","a","k","5">>,
        <<"e","a","8","b","e","2","2","2","4","d","5","8","e","f","0","7","3",
          "8","6","1","3","f","c","3","2","7","8","1","1","c","1","4","f","e",
          "b","4","b","7","3","a","1","2","b","4","8","f","a","1","0","5","6",
          "c","8","6","c","c","e","6","b","1","d","a","3","9">>>>,
      <<<<"R","o","w","a","n">>,
        <<"n","o","s","t","r",":","n","p","r","o","f","i","l","e","1","q","q",
          "s","2","w","9","4","r","0","f","s","2","9","g","e","p","z","f","n",
          "5","z","u","a","u","p","n","9","6","9","g","u","3","f","s","t","j",
          "3","g","q","8","k","v","w","3","c","v","x","9","f","n","x","m","a",
          "u","g","w","u","r","2","2","r">>,
        <<"a","7","1","6","a","3","7","a","6","0","a","2","a","3","2","1","1",
          "2","6","7","4","1","7","3","b","c","0","c","c","b","a","2","a","3",
          "9","1","4","c","1","7","2","8","a","0","0","7","b","3","1","d","1",
          "c","3","0","c","5","4","c","c","d","b","e","f","1">>>>,
      <<<<"N","o","v","a">>,
        <<"n","o","s","t","r",":","n","p","r","o","f","i","l","e","1","q","q",
          "s","r","z","y","7","c","l","y","m","q","5","x","w","c","f","h","h",
          "0","d","f","z","6","z","f","e","7","h","6","3","k","8","r","0","j",
          "8","y","r","4","9","m","x","u","6","a","s","4","y","v","2","0","8",
          "4","s","0","v","f","0","3","5">>,
        <<"3","1","1","3","d","8","f","9","3","6","0","a","1","9","d","8","4",
          "d","e","e","f","6","a","4","5","a","1","2","7","3","e","b","e","a",
          "3","6","3","8","d","f","2","3","9","0","7","5","2","e","c","d","c",
          "d","7","6","1","5","2","3","1","4","f","3","d","6">>>>,
      <<<<"C","o","s","m","o">>,
        <<"n","o","s","t","r",":","n","p","r","o","f","i","l","e","1","q","q",
          "s","q","6","n","8","u","7","d","z","r","n","h","h","y","7","x","y",
          "7","8","k","2","e","e","7","e","4","w","x","l","g","r","k","m","5",
          "g","2","r","g","j","l","3","n","a","p","r","9","q","5","4","n","4",
          "n","c","v","k","q","c","s","j">>,
        <<"0","d","4","c","f","c","f","3","4","4","3","9","d","e","e","4","f",
          "1","8","9","e","3","d","9","5","9","c","f","b","3","5","7","1","b",
          "e","8","1","d","b","7","4","4","2","8","6","8","9","7","e","3","3",
          "e","8","4","6","5","0","5","2","b","3","a","c","f">>>>,
      <<<<"N","e","w","t","o","n">>,
        <<"n","o","s","t","r",":","n","p","r","o","f","i","l","e","1","q","q",
          "s","z","d","s","n","p","y","z","w","h","j","c","q","a","d","s","3",
          "h","w","f","y","w","t","5","j","f","m","y","8","5","j","v","x","8",
          "y","u","p","0","6","y","q","0","k","l","r","h","9","3","l","d","j",
          "x","c","2","6","l","m","y","x">>,
        <<"2","6","c","2","6","1","2","0","9","d","7","9","6","0","1","d","6",
          "c","2","3","7","7","2","4","8","e","5","d","2","4","9","d","9","0",
          "f","4","9","3","0","c","7","2","7","0","2","f","d","1","0","0","f",
          "b","7","c","7","7","2","c","7","e","d","9","1","b">>>>
    >>

\* defaults.py
HEADBUTT_INFO ==
    <<
      <<<<"0">>, StrTemplate(
        <<"⚡","h","e","a","d","b","u","t","t","⚡",":"," ","T","h","e"," ","⚡",
          " ","C","y","b","e","r","H","e","r","d"," ","⚡"," ","i","s"," ","c",
          "u","r","r","e","n","t","l","y"," ","a","t"," ","f","u","l","l"," ",
          "c","a","p","a","c","i","t","y","."," ","T","o"," ","j","o","i","n",
          ","," ","a"," ","c","o","n","t","r","i","b","u","t","i","o","n"," ",
          "o","f"," ","{","r","e","q","u","i","r","e","d","_","s","a","t","s",
          "}"," ","s","a","t","s"," ","i","s"," ","n","e","e","d","e","d"," ",
          "t","o"," ","d","i","s","p","l","a","c","e"," ","t","h","e"," ","m",
          "e","m","b","e","r"," ","w","i","t","h"," ","t","h","e"," ","l","o",
          "w","e","s","t"," ","c","o","n","t","r","i","b","u","t","i","o","n",
          ","," ","{","v","i","c","t","i","m","_","n","a","m","e","}",".",
          "\n","\n"," ","h","t","t","p","s",":","/","/","l","i","g","h","t",
          "n","i","n","g","-","g","o","a","t","s",".","c","o","m","\n","\n">>)>>
    >>

\* defaults.py
SATS_RECEIVED ==
    <<
      <<<<"0">>, StrTemplate(
        <<"U+1F4B0"," ","P","a","y","m","e","n","t"," ","r","e","c","e","i",
          "v","e","d",":"," ","{","n","e","w","_","a","m","o","u","n","t","}",
          " ","s","a","t","s"," ","a","d","d","e","d"," ","t","o"," ","C","y",
          "b","e","r","H","e","r","d","."," ","{","d","i","f","f","e","r","e",
          "n","c","e","_","m","e","s","s","a","g","e","}"," ","S","c","i","e",
          "n","t","i","f","i","c"," ","f","a","c","t",":"," ","G","o","a","t",
          "s",","," ","s","u","c","h"," ","a","s"," ","{","g","o","a","t","_",
          "n","a","m","e","}",","," ","h","a","v","e"," ","u","n","i","q","u",
          "e","l","y"," ","s","h","a","p","e","d"," ","r","e","c","t","a","n",
          "g","u","l","a","r"," ","p","u","p","i","l","s",","," ","w","h","i",
          "c","h"," ","p","r","o","v","i","d","e"," ","t","h","e","m"," ","a",
          " ","w","i","d","e"," ","f","i","e","l","d"," ","o","f"," ","v","i",
          "s","i","o","n",","," ","a","i","d","i","n","g"," ","i","n"," ","p",
          "r","e","d","a","t","o","r"," ","d","e","t","e","c","t","i","o","n",
          ".","\n","\n"," ","h","t","t","p","s",":","/","/","l","i","g","h",
          "t","n","i","n","g","-","g","o","a","t","s",".","c","o","m","\n",
          "\n">>)>>,
      <<<<"1">>, StrTemplate(
        <<"⚡"," ","C","o","n","t","r","i","b","u","t","i","o","n"," ","c","o",
          "n","f","i","r","m","e","d",":"," ","{","n","e","w","_","a","m","o",
          "u","n","t","}"," ","s","a","t","s"," ","r","e","c","e","i","v","e",
          "d","."," ","{","d","i","f","f","e","r","e","n","c","e","_","m","e",
          "s","s","a","g","e","}"," ","F","u","n"," ","f","a","c","t",":"," ",
          "{","g","o","a","t","_","n","a","m","e","}"," ","a","n","d"," ","o",
          "t","h","e","r"," ","g","o","a","t","s"," ","a","r","e"," ","i","n",
          "c","r","e","d","i","b","l","y"," ","a","g","i","l","e"," ","c","l",
          "i","m","b","e","r","s",","," ","c","a","p","a","b","l","e"," ","o",
          "f"," ","s","c","a","l","i","n","g"," ","s","t","e","e","p"," ","t",
          "e","r","r","a","i","n"," ","w","i","t","h"," ","e","a","s","e",".",
          "\n","\n"," ","h","t","t","p","s",":","/","/","l","i","g","h","t",
          "n","i","n","g","-","g","o","a","t","s",".","c","o","m","\n","\n">>)>>,
      <<<<"2">>, StrTemplate(
        <<"U+1F48E"," ","P","a","y","m","e","n","t"," ","p","r","o","c","e",
          "s","s","e","d",":"," ","{","n","e","w","_","a","m","o","u","n","t",
          "}"," ","s","a","t","s"," ","c","o","n","t","r","i","b","u","t","e",
          "d","."," ","{","d","i","f","f","e","r","e","n","c","e","_","m","e",
          "s","s","a","g","e","}"," ","D","i","d"," ","y","o","u"," ","k","n",
          "o","w","?"," ","{","g","o","a","t","_","n","a","m","e","}"," ","r",
          "e","p","r","e","s","e","n","t","s"," ","t","h","e"," ","c","u","r",
          "i","o","u","s"," ","a","n","d"," ","i","n","t","e","l","l","i","g",
          "e","n","t"," ","n","a","t","u","r","e"," ","o","f"," ","g","o","a",
          "t","s"," ","i","n"," ","g","e","n","e","r","a","l",".","\n","\n",
          " ","h","t","t","p","s",":","/","/","l","i","g","h","t","n","i","n",
          "g","-","g","o","a","t","s",".","c","o","m","\n","\n">>)>>,
      <<<<"3">>, StrTemplate(
        <<"U+1F525"," ","S","a","t","s"," ","r","e","c","e","i","v","e","d",
          ":"," ","{","n","e","w","_","a","m","o","u","n","t","}"," ","a","d",
          "d","e","d"," ","t","o"," ","t","h","e"," ","p","o","t","."," ","{",
          "d","i","f","f","e","r","e","n","c","e","_","m","e","s","s","a","g",
          "e","}"," ","I","n","t","e","r","e","s","t","i","n","g",":"," ","G",
          "o","a","t","s"," ","l","i","k","e"," ","{","g","o","a","t","_","n",
          "a","m","e","}"," ","h","a","v","e"," ","e","x","c","e","l","l","e",
          "n","t"," ","m","e","m","o","r","i","e","s"," ","a","n","d"," ","c",
          "a","n"," ","r","e","c","o","g","n","i","z","e"," ","o","t","h","e",
          "r"," ","g","o","a","t","s"," ","a","n","d"," ","h","u","m","a","n",
          "s"," ","f","o","r"," ","y","e","a","r","s",".","\n","\n"," ","h",
          "t","t","p","s",":","/","/","l","i","g","h","t","n","i","n","g","-",
          "g","o","a","t","s",".","c","o","m","\n","\n">>)>>,
      <<<<"4">>, StrTemplate(
        <<"⚡"," ","C","y","b","e","r","H","e","r","d"," ","g","r","o","w","s",
          ":"," ","{","n","e","w","_","a","m","o","u","n","t","}"," ","s","a",
          "t","s"," ","r","e","c","e","i","v","e","d","."," ","{","d","i","f",
          "f","e","r","e","n","c","e","_","m","e","s","s","a","g","e","}"," ",
          "G","o","a","t"," ","t","r","i","v","i","a",":"," ","{","g","o","a",
          "t","_","n","a","m","e","}"," ","e","x","e","m","p","l","i","f","i",
          "e","s"," ","h","o","w"," ","g","o","a","t","s"," ","u","s","e"," ",
          "t","h","e","i","r"," ","p","r","e","h","e","n","s","i","l","e"," ",
          "t","o","n","g","u","e","s"," ","t","o"," ","s","e","l","e","c","t",
          "i","v","e","l","y"," ","e","a","t"," ","t","h","e"," ","m","o","s",
          "t"," ","n","u","t","r","i","t","i","o","u","s"," ","p","l","a","n",
          "t","s",".","\n","\n"," ","h","t","t","p","s",":","/","/","l","i",
          "g","h","t","n","i","n","g","-","g","o","a","t","s",".","c","o","m",
          "\n","\n">>)>>
    >>

\* defaults.py
VARIATIONS ==
    <<
      <<<<"0">>, StrTemplate(
        <<"{","d","i","f","f","e","r","e","n","c","e","}"," ","s","a","t","s",
          " ","a","r","e"," ","r","e","q","u","i","r","e","d"," ","f","o","r",
          " ","f","e","e","d","e","r"," ","a","c","t","i","v","a","t","i","o",
          "n",".">>)>>,
      <<<<"1">>, StrTemplate(
        <<"T","h","e"," ","n","e","x","t"," ","f","e","e","d","i","n","g"," ",
          "c","y","c","l","e"," ","w","i","l","l"," ","b","e","g","i","n"," ",
          "i","n"," ","{","d","i","f","f","e","r","e","n","c","e","}"," ","s",
          "a","t","s",".">>)>>,
      <<<<"2">>, StrTemplate(
        <<"A","w","a","i","t","i","n","g"," ","a"," ","r","e","m","a","i","n",
          "i","n","g"," ","{","d","i","f","f","e","r","e","n","c","e","}"," ",
          "s","a","t","s"," ","t","o"," ","t","r","i","g","g","e","r"," ","t",
          "h","e"," ","f","e","e","d","e","r",".">>)>>,
      <<<<"3">>, StrTemplate(
        <<"{","d","i","f","f","e","r","e","n","c","e","}"," ","s","a","t","s",
          " ","n","e","e","d","e","d"," ","b","e","f","o","r","e"," ","t","h",
          "e"," ","g","o","a","t","s"," ","r","e","c","e","i","v","e"," ","t",
          "h","e","i","r"," ","t","r","e","a","t","s",".">>)>>,
      <<<<"4">>, StrTemplate(
        <<"T","h","e"," ","f","e","e","d","e","r"," ","i","s"," ","{","d","i",
          "f","f","e","r","e","n","c","e","}"," ","s","a","t","s"," ","a","w",
          "a","y"," ","f","r","o","m"," ","a","c","t","i","v","a","t","i","o",
          "n",".">>)>>,
      <<<<"5">>, StrTemplate(
        <<"T","h","e"," ","f","e","e","d","i","n","g"," ","p","r","o","t","o",
          "c","o","l"," ","w","i","l","l"," ","i","n","i","t","i","a","t","e",
          " ","a","f","t","e","r"," ","{","d","i","f","f","e","r","e","n","c",
          "e","}"," ","m","o","r","e"," ","s","a","t","s",".">>)>>,
      <<<<"6">>, StrTemplate(
        <<"T","h","e"," ","s","y","s","t","e","m"," ","r","e","q","u","i","r",
          "e","s"," ","a","n"," ","a","d","d","i","t","i","o","n","a","l"," ",
          "{","d","i","f","f","e","r","e","n","c","e","}"," ","s","a","t","s",
          " ","t","o"," ","d","i","s","p","e","n","s","e"," ","t","r","e","a",
          "t","s",".">>)>>,
      <<<<"7">>, StrTemplate(
        <<"T","h","e"," ","f","e","e","d","e","r"," ","a","c","t","i","v","a",
          "t","i","o","n"," ","i","s"," ","p","e","n","d","i","n","g"," ","{",
          "d","i","f","f","e","r","e","n","c","e","}"," ","m","o","r","e"," ",
          "s","a","t","s",".">>)>>,
      <<<<"8">>, StrTemplate(
        <<"{","d","i","f","f","e","r","e","n","c","e","}"," ","s","a","t","s",
          " ","r","e","m","a","i","n","i","n","g"," ","u","n","t","i","l"," ",
          "t","h","e"," ","n","e","x","t"," ","s","c","h","e","d","u","l","e",
          "d"," ","f","e","e","d","i","n","g",".">>)>>,
      <<<<"9">>, StrTemplate(
        <<"P","l","e","a","s","e"," ","n","o","t","e",":"," ","{","d","i","f",
          "f","e","r","e","n","c","e","}"," ","m","o","r","e"," ","s","a","t",
          "s"," ","a","r","e"," ","n","e","e","d","e","d"," ","f","o","r"," ",
          "t","h","e"," ","n","e","x","t"," ","f","e","e","d","i","n","g",
          ".">>)>>,
      <<<<"1","0">>, StrTemplate(
        <<"T","h","e"," ","f","e","e","d","e","r"," ","w","i","l","l"," ","d",
          "i","s","p","e","n","s","e"," ","t","r","e","a","t","s"," ","o","n",
          "c","e"," ","{","d","i","f","f","e","r","e","n","c","e","}"," ","m",
          "o","r","e"," ","s","a","t","s"," ","a","r","e"," ","c","o","n","t",
          "r","i","b","u","t","e","d",".">>)>>
    >>

\* utils.get_random_goat_names: the goats at the sampled positions, in the
\* order random.sample gave them
get_random_goat_names(sample) == [i \in 1..Len(sample) |-> GOAT_NAMES_DICT[sample[i]]]

\* random.choice(list(pool.values())) of a pool that is not empty
_pick_template(pool, choice) == pool[(choice % Len(pool)) + 1][2]

S_nostr == <<"n","o","s","t","r",":">>

\* _normalize_nprofile
_normalize_nprofile(value) ==
    IF Truthy(value) /\ ~StartsWithAt(value, 1, S_nostr) THEN S_nostr \o value ELSE value

S_promo == <<"\n","\n"," ","h","t","t","p","s",":","/","/","l","i","g","h","t","n","i","n","g","-","g","o","a","t","s",".","c","o","m","\n","\n">>

\* mutant: the trailer is removed from every content, reply or not
_strip_promotional_link_always(content, is_30311_reply) ==
    Replace(content, S_promo, <<>>)

\* _strip_promotional_link
_strip_promotional_link(content, is_30311_reply) ==
    IF is_30311_reply THEN Replace(content, S_promo, <<>>) ELSE content

S_variations == <<"v","a","r","i","a","t","i","o","n","s">>
S_difference == <<"d","i","f","f","e","r","e","n","c","e">>

\* _format_variation: the variation drawn from the overrides or from
\* VARIATIONS, formatted, or as it is when formatting raises
_format_variation(difference, template_overrides, choice) ==
    LET pool == IF /\ template_overrides # <<>>
                   /\ HasKey(template_overrides, S_variations)
                   /\ Get(template_overrides, S_variations) # <<>>
                THEN Get(template_overrides, S_variations) ELSE VARIATIONS
        template == _pick_template(pool, choice).content
        text == str_format(template, << <<S_difference, difference>> >>)
    IN  IF text.raised THEN template ELSE text.text

S_png == <<".","p","n","g">>
S_images == <<"i","m","a","g","e","s","/">>
S_p_tag == <<" ","p","-","t","a","g"," ">>

\* _select_goats for goats whose profile and pubkey are both present
_select_goats(sample) ==
    LET goats == get_random_goat_names(sample)
        names == [i \in 1..Len(goats) |-> goats[i][1]]
        mentions == [i \in 1..Len(goats) |->
                       _normalize_nprofile(goats[i][2]) \o S_p_tag \o goats[i][3]]
    IN  [goat_data |-> [i \in 1..Len(goats) |->
                          [name |-> names[i],
                           imageUrl |-> S_images \o Lower(names[i]) \o S_png]],
         goat_names |-> join_with_and(names),
         goat_profiles |-> join_with_and(mentions),
         goat_mentions |-> join_with_and(mentions)]

\* _safe_template_content
_safe_template_content(template) == template.content

\* _format_template
_format_template(template, kwargs) ==
    LET base == _safe_template_content(template)
        text == str_format(base, kwargs)
    IN  IF text.raised THEN base ELSE text.text

S__dict == <<"_","d","i","c","t">>

\* build_message._pool
_pool(template_overrides, name, default) ==
    LET candidates == <<name, Lower(name), Lower(name) \o S__dict,
                        Replace(Lower(name), S__dict, <<>>)>>
        present == {k \in 1..Len(candidates) :
                      /\ HasKey(template_overrides, candidates[k])
                      /\ Get(template_overrides, candidates[k]) # <<>>}
    IN  IF template_overrides = <<>> \/ present = {} THEN default
        ELSE Get(template_overrides, candidates[Min(present)])

\* d.get(key, default)
GetOr(d, key, default) == IF HasKey(d, key) THEN Get(d, key) ELSE default

S_headbutt_info == <<"h","e","a","d","b","u","t","t","_","i","n","f","o">>
S_sats_received == <<"s","a","t","s","_","r","e","c","e","i","v","e","d">>
S_required_sats == <<"r","e","q","u","i","r","e","d","_","s","a","t","s">>
S_victim_name == <<"v","i","c","t","i","m","_","n","a","m","e">>
S_victim_pubkey == <<"v","i","c","t","i","m","_","p","u","b","k","e","y">>
S_victim_nprofile == <<"v","i","c","t","i","m","_","n","p","r","o","f","i","l","e">>
S_victim_display_name == <<"v","i","c","t","i","m","_","d","i","s","p","l","a","y","_","n","a","m","e">>
S_new_amount == <<"n","e","w","_","a","m","o","u","n","t">>
S_goat_name == <<"g","o","a","t","_","n","a","m","e">>
S_goat_name_field == <<"{","g","o","a","t","_","n","a","m","e","}">>
S_difference_message == <<"d","i","f","f","e","r","e","n","c","e","_","m","e","s","s","a","g","e">>
S_Anon == <<"A","n","o","n">>

MessageBundle(nostr_content, websocket_content, goat_data) ==
    [raised |-> FALSE, nostr_content |-> nostr_content,
     websocket_content |-> websocket_content, spots_info |-> <<>>,
     goat_data |-> goat_data, spots_remaining |-> 0, headbutt_text |-> <<>>]

\* build_message line 238
is_30311_reply(a) == Truthy(a.reply_to_30311_event) /\ Truthy(a.reply_to_30311_a_tag)

\* an exception leaves build_message
BuildRaised ==
    [raised |-> TRUE, nostr_content |-> <<>>, websocket_content |-> <<>>,
     spots_info |-> <<>>, goat_data |-> None, spots_remaining |-> 0,
     headbutt_text |-> <<>>]

\* build_message lines 311-346, event_type "sats_received"
BuildSatsReceived(a, choices, sample) ==
    LET template == _pick_template(_pool(a.template_overrides, S_sats_received, SATS_RECEIVED),
                                   choices[1])
        content == _safe_template_content(template)
        difference_message == _format_variation(a.difference, a.template_overrides, choices[2])
        goats == IF Contains(content, S_goat_name_field) THEN _select_goats(sample)
                 ELSE [goat_data |-> None, goat_names |-> <<>>,
                       goat_profiles |-> <<>>, goat_mentions |-> <<>>]
        kwargs(goat_name) == << <<S_new_amount, a.new_amount>>,
                                <<S_goat_name, StrVal(goat_name)>>,
                                <<S_difference_message, StrVal(difference_message)>> >>
        nostr_body == str_format(content, kwargs(IF goats.goat_mentions # <<>>
                                                 THEN goats.goat_mentions
                                                 ELSE goats.goat_profiles))
        websocket_body == str_format(content, kwargs(goats.goat_names))
    IN  IF nostr_body.raised \/ websocket_body.raised THEN BuildRaised
        ELSE MessageBundle(_strip_promotional_link(nostr_body.text, is_30311_reply(a)),
                           websocket_body.text, goats.goat_data)

\* build_message lines 348-365, event_type "headbutt_info"
BuildHeadbuttInfo(a, choices) ==
    LET ch_item == a.cyber_herd_item
        template == _pick_template(_pool(a.template_overrides, S_headbutt_info, HEADBUTT_INFO),
                                   choices[1])
        required_sats == GetOr(ch_item, S_required_sats, IntVal(<<"0">>))
        victim_name == GetOr(ch_item, S_victim_name, StrVal(S_Anon))
        victim_pubkey == GetOr(ch_item, S_victim_pubkey, StrVal(<<>>))
        victim_nprofile == _normalize_nprofile(
                               IF HasKey(ch_item, S_victim_nprofile)
                               THEN Get(ch_item, S_victim_nprofile).text ELSE None)
        victim_display == GetOr(ch_item, S_victim_display_name, victim_name)
        victim_nostr == IF format_nostr_pubkey(victim_pubkey.text) # None
                        THEN StrVal(format_nostr_pubkey(victim_pubkey.text))
                        ELSE IF Truthy(victim_nprofile) THEN StrVal(victim_nprofile)
                        ELSE victim_display
    IN  MessageBundle(
            _strip_promotional_link(
                _format_template(template, << <<S_required_sats, required_sats>>,
                                              <<S_victim_name, victim_nostr>> >>),
                is_30311_reply(a)),
            _format_template(template, << <<S_required_sats, required_sats>>,
                                          <<S_victim_name, victim_display>> >>),
            None)

----------------------------------------------------------------------------
(* Message building: template selection and every branch of build_message   *)

\* _pick_template, lines 77-81, as a call of its own: random.choice raises
\* IndexError for a pool without values, the handler's next() of the
\* exhausted iterator then raises StopIteration, and nothing catches that
pick_template(t, pool, choice) ==
    /\ pc[t] = "idle"
    /\ call' = [call EXCEPT ![t] = [pick_pool |-> pool, choice |-> choice]]
    /\ loc' = [loc EXCEPT ![t] =
                 IF pool = <<>>
                 THEN [picked |-> None] @@ [InitLoc EXCEPT !.result = "Raised"]
                 ELSE [picked |-> _pick_template(pool, choice)]
                      @@ [InitLoc EXCEPT !.result = "Returned"]]
    /\ pc' = [pc EXCEPT ![t] = "done"]
    /\ UNCHANGED <<user_key, setting, nostrclient_available, lock, probes>>

\* defaults.py
CYBER_HERD_JOIN ==
    <<
      <<<<"0">>, DictTemplate(
        <<"{","n","a","m","e","}"," ","h","a","s"," ","j","o","i","n","e","d",
          " ","t","h","e"," ","⚡"," ","C","y","b","e","r","H","e","r","d"," ",
          "⚡","."," ","{","t","h","a","n","k","s","_","p","a","r","t","}"," ",
          "T","h","e"," ","f","e","e","d","e","r"," ","w","i","l","l"," ","a",
          "c","t","i","v","a","t","e"," ","i","n"," ","{","d","i","f","f","e",
          "r","e","n","c","e","}"," ","s","a","t","s",".","\n","\n"," ","h",
          "t","t","p","s",":","/","/","l","i","g","h","t","n","i","n","g","-",
          "g","o","a","t","s",".","c","o","m","\n","\n">>,
        <<"h","t","t","p","s",":","/","/","r","e","l","a","y",".","d","a","m",
          "u","s",".","i","o">>)>>,
      <<<<"1">>, DictTemplate(
        <<"W","e","l","c","o","m","e",","," ","{","n","a","m","e","}","."," ",
          "{","t","h","a","n","k","s","_","p","a","r","t","}"," ","T","h","e",
          " ","⚡"," ","C","y","b","e","r","H","e","r","d"," ","⚡"," ","g","r",
          "o","w","s","."," ","{","d","i","f","f","e","r","e","n","c","e","}",
          " ","s","a","t","s"," ","a","r","e"," ","r","e","q","u","i","r","e",
          "d"," ","f","o","r"," ","t","h","e"," ","n","e","x","t"," ","f","e",
          "e","d","i","n","g"," ","c","y","c","l","e",".","\n","\n"," ","h",
          "t","t","p","s",":","/","/","l","i","g","h","t","n","i","n","g","-",
          "g","o","a","t","s",".","c","o","m","\n","\n">>,
        <<"h","t","t","p","s",":","/","/","n","o","s","t","r","-","p","u","b",
          ".","w","e","l","l","o","r","d","e","r",".","n","e","t">>)>>
    >>

\* defaults.py
THANK_YOU_VARIATIONS ==
    <<
      <<<<"0">>, DictTemplate(
        <<"T","h","a","n","k"," ","y","o","u"," ","f","o","r"," ","t","h","e",
          " ","c","o","n","t","r","i","b","u","t","i","o","n"," ","o","f"," ",
          "{","n","e","w","_","a","m","o","u","n","t","}"," ","s","a","t","s",
          ".">>,
        <<"h","t","t","p","s",":","/","/","r","e","l","a","y",".","s","n","o",
          "r","t",".","s","o","c","i","a","l">>)>>,
      <<<<"1">>, DictTemplate(
        <<"Y","o","u","r"," ","{","n","e","w","_","a","m","o","u","n","t","}",
          " ","s","a","t"," ","c","o","n","t","r","i","b","u","t","i","o","n",
          " ","h","a","s"," ","b","e","e","n"," ","r","e","c","e","i","v","e",
          "d"," ","a","n","d"," ","s","u","p","p","o","r","t","s"," ","t","h",
          "e"," ","h","e","r","d",".">>,
        <<"h","t","t","p","s",":","/","/","r","e","l","a","y",".","s","n","o",
          "r","t",".","s","o","c","i","a","l">>)>>
    >>

\* defaults.py
CYBER_HERD_TREATS ==
    <<
      <<<<"0">>, StrTemplate(
        <<"{","n","a","m","e","}"," ","h","a","s"," ","r","e","c","e","i","v",
          "e","d"," ","a"," ","r","e","w","a","r","d"," ","o","f"," ","{","n",
          "e","w","_","a","m","o","u","n","t","}"," ","s","a","t","s"," ","f",
          "r","o","m"," ","t","h","e"," ","⚡"," ","C","y","b","e","r","H","e",
          "r","d"," ","⚡"," ","d","i","s","t","r","i","b","u","t","i","o","n",
          ".","\n","\n"," ","h","t","t","p","s",":","/","/","l","i","g","h",
          "t","n","i","n","g","-","g","o","a","t","s",".","c","o","m","\n",
          "\n">>)>>,
      <<<<"1">>, StrTemplate(
        <<"A"," ","d","i","s","t","r","i","b","u","t","i","o","n"," ","o","f",
          " ","{","n","e","w","_","a","m","o","u","n","t","}"," ","s","a","t",
          "s"," ","h","a","s"," ","b","e","e","n"," ","s","e","n","t"," ","t",
          "o"," ","{","n","a","m","e","}"," ","a","s"," ","p","a","r","t"," ",
          "o","f"," ","t","h","e","i","r"," ","⚡"," ","C","y","b","e","r","H",
          "e","r","d"," ","⚡"," ","m","e","m","b","e","r","s","h","i","p",".",
          "\n","\n"," ","h","t","t","p","s",":","/","/","l","i","g","h","t",
          "n","i","n","g","-","g","o","a","t","s",".","c","o","m","\n","\n">>)>>
    >>

\* defaults.py
HEADBUTT_SUCCESS ==
    <<
      <<<<"0">>, DictTemplate(
        <<"⚡","h","e","a","d","b","u","t","t","⚡",":"," ","A"," ","n","e","w",
          " ","m","e","m","b","e","r"," ","h","a","s"," ","j","o","i","n","e",
          "d"," ","t","h","e"," ","⚡"," ","C","y","b","e","r","H","e","r","d",
          " ","⚡","."," ","{","a","t","t","a","c","k","e","r","_","n","a","m",
          "e","}"," ","(","{","a","t","t","a","c","k","e","r","_","a","m","o",
          "u","n","t","}"," ","s","a","t","s",")"," ","h","a","s"," ","d","i",
          "s","p","l","a","c","e","d"," ","{","v","i","c","t","i","m","_","n",
          "a","m","e","}"," ","(","{","v","i","c","t","i","m","_","a","m","o",
          "u","n","t","}"," ","s","a","t","s",")",".","\n","\n"," ","h","t",
          "t","p","s",":","/","/","l","i","g","h","t","n","i","n","g","-","g",
          "o","a","t","s",".","c","o","m","\n","\n">>,
        <<"h","t","t","p","s",":","/","/","r","e","l","a","y",".","d","a","m",
          "u","s",".","i","o">>)>>,
      <<<<"1">>, DictTemplate(
        <<"⚡","h","e","a","d","b","u","t","t","⚡",":"," ","T","h","e"," ","⚡",
          " ","C","y","b","e","r","H","e","r","d"," ","⚡"," ","r","o","s","t",
          "e","r"," ","h","a","s"," ","b","e","e","n"," ","u","p","d","a","t",
          "e","d","."," ","{","a","t","t","a","c","k","e","r","_","n","a","m",
          "e","}"," ","(","{","a","t","t","a","c","k","e","r","_","a","m","o",
          "u","n","t","}"," ","s","a","t","s",")"," ","h","a","s"," ","t","a",
          "k","e","n"," ","t","h","e"," ","p","o","s","i","t","i","o","n"," ",
          "p","r","e","v","i","o","u","s","l","y"," ","h","e","l","d"," ","b",
          "y"," ","{","v","i","c","t","i","m","_","n","a","m","e","}"," ","(",
          "{","v","i","c","t","i","m","_","a","m","o","u","n","t","}"," ","s",
          "a","t","s",")",".","\n","\n"," ","h","t","t","p","s",":","/","/",
          "l","i","g","h","t","n","i","n","g","-","g","o","a","t","s",".","c",
          "o","m","\n","\n">>,
        <<"h","t","t","p","s",":","/","/","r","e","l","a","y",".","d","a","m",
          "u","s",".","i","o">>)>>,
      <<<<"2">>, DictTemplate(
        <<"⚡","h","e","a","d","b","u","t","t","⚡",":"," ","M","e","m","b","e",
          "r","s","h","i","p"," ","c","h","a","n","g","e",":"," ","{","a","t",
          "t","a","c","k","e","r","_","n","a","m","e","}"," ","h","a","s"," ",
          "e","n","t","e","r","e","d"," ","t","h","e"," ","⚡"," ","C","y","b",
          "e","r","H","e","r","d"," ","⚡"," ","w","i","t","h"," ","a"," ","c",
          "o","n","t","r","i","b","u","t","i","o","n"," ","o","f"," ","{","a",
          "t","t","a","c","k","e","r","_","a","m","o","u","n","t","}"," ","s",
          "a","t","s",","," ","d","i","s","p","l","a","c","i","n","g"," ","{",
          "v","i","c","t","i","m","_","n","a","m","e","}"," ","(","{","v","i",
          "c","t","i","m","_","a","m","o","u","n","t","}"," ","s","a","t","s",
          ")",".","\n","\n"," ","h","t","t","p","s",":","/","/","l","i","g",
          "h","t","n","i","n","g","-","g","o","a","t","s",".","c","o","m",
          "\n","\n">>,
        <<"h","t","t","p","s",":","/","/","n","o","s","t","r","-","p","u","b",
          ".","w","e","l","l","o","r","d","e","r",".","n","e","t">>)>>,
      <<<<"3">>, DictTemplate(
        <<"⚡","h","e","a","d","b","u","t","t","⚡",":"," ","A"," ","p","o","s",
          "i","t","i","o","n"," ","i","n"," ","t","h","e"," ","⚡"," ","C","y",
          "b","e","r","H","e","r","d"," ","⚡"," ","h","a","s"," ","b","e","e",
          "n"," ","f","i","l","l","e","d"," ","b","y"," ","{","a","t","t","a",
          "c","k","e","r","_","n","a","m","e","}"," ","(","{","a","t","t","a",
          "c","k","e","r","_","a","m","o","u","n","t","}"," ","s","a","t","s",
          ")","."," ","T","h","e"," ","p","r","e","v","i","o","u","s"," ","m",
          "e","m","b","e","r",","," ","{","v","i","c","t","i","m","_","n","a",
          "m","e","}"," ","(","{","v","i","c","t","i","m","_","a","m","o","u",
          "n","t","}"," ","s","a","t","s",")",","," ","h","a","s"," ","b","e",
          "e","n"," ","r","e","m","o","v","e","d",".","\n","\n"," ","h","t",
          "t","p","s",":","/","/","l","i","g","h","t","n","i","n","g","-","g",
          "o","a","t","s",".","c","o","m","\n","\n">>,
        <<"h","t","t","p","s",":","/","/","n","o","s","t","r","-","p","u","b",
          ".","w","e","l","l","o","r","d","e","r",".","n","e","t">>)>>,
      <<<<"4">>, DictTemplate(
        <<"⚡","h","e","a","d","b","u","t","t","⚡",":"," ","U","p","d","a","t",
          "e",":"," ","{","a","t","t","a","c","k","e","r","_","n","a","m","e",
          "}"," ","i","s"," ","n","o","w"," ","a"," ","m","e","m","b","e","r",
          " ","o","f"," ","t","h","e"," ","⚡"," ","C","y","b","e","r","H","e",
          "r","d"," ","⚡"," ","w","i","t","h"," ","a"," ","{","a","t","t","a",
          "c","k","e","r","_","a","m","o","u","n","t","}"," ","s","a","t"," ",
          "c","o","n","t","r","i","b","u","t","i","o","n",","," ","r","e","p",
          "l","a","c","i","n","g"," ","{","v","i","c","t","i","m","_","n","a",
          "m","e","}"," ","(","{","v","i","c","t","i","m","_","a","m","o","u",
          "n","t","}"," ","s","a","t","s",")",".","\n","\n"," ","h","t","t",
          "p","s",":","/","/","l","i","g","h","t","n","i","n","g","-","g","o",
          "a","t","s",".","c","o","m","\n","\n">>,
        <<"h","t","t","p","s",":","/","/","r","e","l","a","y",".","s","n","o",
          "r","t",".","s","o","c","i","a","l">>)>>
    >>

\* defaults.py
HEADBUTT_FAILURE ==
    <<
      <<<<"0">>, StrTemplate(
        <<"⚡","h","e","a","d","b","u","t","t","⚡",":"," ","T","h","e"," ","⚡",
          " ","C","y","b","e","r","H","e","r","d"," ","⚡"," ","i","s"," ","c",
          "u","r","r","e","n","t","l","y"," ","a","t"," ","f","u","l","l"," ",
          "c","a","p","a","c","i","t","y","."," ","T","o"," ","j","o","i","n",
          ","," ","a"," ","c","o","n","t","r","i","b","u","t","i","o","n"," ",
          "o","f"," ","{","r","e","q","u","i","r","e","d","_","s","a","t","s",
          "}"," ","s","a","t","s"," ","i","s"," ","n","e","e","d","e","d"," ",
          "t","o"," ","d","i","s","p","l","a","c","e"," ","t","h","e"," ","m",
          "e","m","b","e","r"," ","w","i","t","h"," ","t","h","e"," ","l","o",
          "w","e","s","t"," ","c","o","n","t","r","i","b","u","t","i","o","n",
          ","," ","{","v","i","c","t","i","m","_","n","a","m","e","}",".",
          "\n","\n"," ","h","t","t","p","s",":","/","/","l","i","g","h","t",
          "n","i","n","g","-","g","o","a","t","s",".","c","o","m","\n","\n">>)>>,
      <<<<"1">>, StrTemplate(
        <<"⚡","h","e","a","d","b","u","t","t","⚡",":"," ","T","h","e"," ","⚡",
          " ","C","y","b","e","r","H","e","r","d"," ","⚡"," ","i","s"," ","a",
          "t"," ","c","a","p","a","c","i","t","y","."," ","A"," ","c","o","n",
          "t","r","i","b","u","t","i","o","n"," ","g","r","e","a","t","e","r",
          " ","t","h","a","n"," ","{","r","e","q","u","i","r","e","d","_","s",
          "a","t","s","}"," ","s","a","t","s"," ","w","i","l","l"," ","g","r",
          "a","n","t"," ","y","o","u"," ","{","v","i","c","t","i","m","_","n",
          "a","m","e","}","'","s"," ","p","o","s","i","t","i","o","n",".",
          "\n","\n"," ","h","t","t","p","s",":","/","/","l","i","g","h","t",
          "n","i","n","g","-","g","o","a","t","s",".","c","o","m","\n","\n">>)>>,
      <<<<"2">>, StrTemplate(
        <<"⚡","h","e","a","d","b","u","t","t","⚡",":"," ","T","h","e"," ","⚡",
          " ","C","y","b","e","r","H","e","r","d"," ","⚡"," ","i","s"," ","f",
          "u","l","l","."," ","T","o"," ","b","e","c","o","m","e"," ","a"," ",
          "m","e","m","b","e","r",","," ","y","o","u"," ","m","u","s","t"," ",
          "c","o","n","t","r","i","b","u","t","e"," ","m","o","r","e"," ","t",
          "h","a","n"," ","t","h","e"," ","l","o","w","e","s","t"," ","m","e",
          "m","b","e","r","'","s"," ","a","m","o","u","n","t"," ","o","f"," ",
          "{","r","e","q","u","i","r","e","d","_","s","a","t","s","}"," ","s",
          "a","t","s",","," ","c","u","r","r","e","n","t","l","y"," ","h","e",
          "l","d"," ","b","y"," ","{","v","i","c","t","i","m","_","n","a","m",
          "e","}",".","\n","\n"," ","h","t","t","p","s",":","/","/","l","i",
          "g","h","t","n","i","n","g","-","g","o","a","t","s",".","c","o","m",
          "\n","\n">>)>>,
      <<<<"3">>, StrTemplate(
        <<"⚡","h","e","a","d","b","u","t","t","⚡",":"," ","M","e","m","b","e",
          "r","s","h","i","p"," ","i","n"," ","t","h","e"," ","⚡"," ","C","y",
          "b","e","r","H","e","r","d"," ","⚡"," ","i","s"," ","c","u","r","r",
          "e","n","t","l","y"," ","f","u","l","l","."," ","Y","o","u"," ","c",
          "a","n"," ","g","a","i","n"," ","a"," ","s","p","o","t"," ","b","y",
          " ","c","o","n","t","r","i","b","u","t","i","n","g"," ","a","t"," ",
          "l","e","a","s","t"," ","{","r","e","q","u","i","r","e","d","_","s",
          "a","t","s","}"," ","s","a","t","s",","," ","w","h","i","c","h"," ",
          "w","i","l","l"," ","d","i","s","p","l","a","c","e"," ","{","v","i",
          "c","t","i","m","_","n","a","m","e","}",".","\n","\n"," ","h","t",
          "t","p","s",":","/","/","l","i","g","h","t","n","i","n","g","-","g",
          "o","a","t","s",".","c","o","m","\n","\n">>)>>,
      <<<<"4">>, StrTemplate(
        <<"⚡","h","e","a","d","b","u","t","t","⚡",":"," ","T","h","e","r","e",
          " ","a","r","e"," ","n","o"," ","a","v","a","i","l","a","b","l","e",
          " ","s","p","o","t","s"," ","i","n"," ","t","h","e"," ","⚡"," ","C",
          "y","b","e","r","H","e","r","d"," ","⚡","."," ","A"," ","c","o","n",
          "t","r","i","b","u","t","i","o","n"," ","o","f"," ","{","r","e","q",
          "u","i","r","e","d","_","s","a","t","s","}"," ","s","a","t","s"," ",
          "o","r"," ","m","o","r","e"," ","i","s"," ","r","e","q","u","i","r",
          "e","d"," ","t","o"," ","t","a","k","e"," ","t","h","e"," ","p","l",
          "a","c","e"," ","o","f"," ","{","v","i","c","t","i","m","_","n","a",
          "m","e","}",".","\n","\n"," ","h","t","t","p","s",":","/","/","l",
          "i","g","h","t","n","i","n","g","-","g","o","a","t","s",".","c","o",
          "m","\n","\n">>)>>
    >>

\* defaults.py
MEMBER_INCREASE ==
    <<
      <<<<"0">>, StrTemplate(
        <<"{","m","e","m","b","e","r","_","n","a","m","e","}"," ","i","n","c",
          "r","e","a","s","e","d"," ","t","h","e","i","r"," ","c","o","n","t",
          "r","i","b","u","t","i","o","n"," ","b","y"," ","{","i","n","c","r",
          "e","a","s","e","_","a","m","o","u","n","t","}"," ","s","a","t","s",
          ","," ","b","r","i","n","g","i","n","g"," ","t","h","e","i","r"," ",
          "t","o","t","a","l"," ","t","o"," ","{","n","e","w","_","t","o","t",
          "a","l","}"," ","s","a","t","s",".","\n","\n"," ","h","t","t","p",
          "s",":","/","/","l","i","g","h","t","n","i","n","g","-","g","o","a",
          "t","s",".","c","o","m","\n","\n">>)>>,
      <<<<"1">>, StrTemplate(
        <<"{","m","e","m","b","e","r","_","n","a","m","e","}"," ","h","a","s",
          " ","b","o","o","s","t","e","d"," ","t","h","e","i","r"," ","⚡"," ",
          "C","y","b","e","r","H","e","r","d"," ","⚡"," ","c","o","n","t","r",
          "i","b","u","t","i","o","n"," ","b","y"," ","{","i","n","c","r","e",
          "a","s","e","_","a","m","o","u","n","t","}"," ","s","a","t","s",",",
          " ","n","o","w"," ","t","o","t","a","l","i","n","g"," ","{","n","e",
          "w","_","t","o","t","a","l","}"," ","s","a","t","s",".","\n","\n",
          " ","h","t","t","p","s",":","/","/","l","i","g","h","t","n","i","n",
          "g","-","g","o","a","t","s",".","c","o","m","\n","\n">>)>>,
      <<<<"2">>, StrTemplate(
        <<"C","o","n","t","r","i","b","u","t","i","o","n"," ","u","p","d","a",
          "t","e",":"," ","{","m","e","m","b","e","r","_","n","a","m","e","}",
          " ","a","d","d","e","d"," ","{","i","n","c","r","e","a","s","e","_",
          "a","m","o","u","n","t","}"," ","s","a","t","s"," ","t","o"," ","t",
          "h","e","i","r"," ","t","o","t","a","l"," ","o","f"," ","{","n","e",
          "w","_","t","o","t","a","l","}"," ","s","a","t","s"," ","i","n"," ",
          "t","h","e"," ","⚡"," ","C","y","b","e","r","H","e","r","d"," ","⚡",
          ".","\n","\n"," ","h","t","t","p","s",":","/","/","l","i","g","h",
          "t","n","i","n","g","-","g","o","a","t","s",".","c","o","m","\n",
          "\n">>)>>,
      <<<<"3">>, StrTemplate(
        <<"{","m","e","m","b","e","r","_","n","a","m","e","}"," ","h","a","s",
          " ","i","n","c","r","e","a","s","e","d"," ","t","h","e","i","r"," ",
          "s","t","a","k","e"," ","i","n"," ","t","h","e"," ","⚡"," ","C","y",
          "b","e","r","H","e","r","d"," ","⚡"," ","b","y"," ","{","i","n","c",
          "r","e","a","s","e","_","a","m","o","u","n","t","}"," ","s","a","t",
          "s",","," ","r","e","a","c","h","i","n","g"," ","a"," ","t","o","t",
          "a","l"," ","o","f"," ","{","n","e","w","_","t","o","t","a","l","}",
          " ","s","a","t","s",".","\n","\n"," ","h","t","t","p","s",":","/",
          "/","l","i","g","h","t","n","i","n","g","-","g","o","a","t","s",".",
          "c","o","m","\n","\n">>)>>,
      <<<<"4">>, StrTemplate(
        <<"⚡"," ","C","y","b","e","r","H","e","r","d"," ","⚡"," ","u","p","d",
          "a","t","e",":"," ","{","m","e","m","b","e","r","_","n","a","m","e",
          "}"," ","h","a","s"," ","g","r","o","w","n"," ","t","h","e","i","r",
          " ","c","o","n","t","r","i","b","u","t","i","o","n"," ","b","y"," ",
          "{","i","n","c","r","e","a","s","e","_","a","m","o","u","n","t","}",
          " ","s","a","t","s",","," ","n","o","w"," ","a","t"," ","{","n","e",
          "w","_","t","o","t","a","l","}"," ","s","a","t","s"," ","t","o","t",
          "a","l",".","\n","\n"," ","h","t","t","p","s",":","/","/","l","i",
          "g","h","t","n","i","n","g","-","g","o","a","t","s",".","c","o","m",
          "\n","\n">>)>>
    >>

\* defaults.py
DAILY_RESET ==
    <<
      <<<<"0">>, StrTemplate(
        <<"U+1F504"," ","D","a","i","l","y"," ","C","y","b","e","r","H","e",
          "r","d"," ","r","e","s","e","t"," ","c","o","m","p","l","e","t","e",
          "d","."," ","A","l","l"," ","m","e","m","b","e","r"," ","c","o","n",
          "t","r","i","b","u","t","i","o","n","s"," ","h","a","v","e"," ","b",
          "e","e","n"," ","r","e","s","e","t"," ","t","o"," ","z","e","r","o",
          "."," ","N","e","w"," ","f","e","e","d","i","n","g"," ","c","y","c",
          "l","e"," ","b","e","g","i","n","s"," ","n","o","w","!","\n","\n",
          " ","h","t","t","p","s",":","/","/","l","i","g","h","t","n","i","n",
          "g","-","g","o","a","t","s",".","c","o","m","\n","\n">>)>>,
      <<<<"1">>, StrTemplate(
        <<"U+1F305"," ","G","o","o","d"," ","m","o","r","n","i","n","g","!",
          " ","T","h","e"," ","C","y","b","e","r","H","e","r","d"," ","h","a",
          "s"," ","b","e","e","n"," ","r","e","s","e","t"," ","f","o","r"," ",
          "a"," ","n","e","w"," ","d","a","y","."," ","A","l","l"," ","c","o",
          "n","t","r","i","b","u","t","i","o","n","s"," ","c","l","e","a","r",
          "e","d"," ","a","n","d"," ","r","e","a","d","y"," ","f","o","r"," ",
          "f","r","e","s","h"," ","p","a","r","t","i","c","i","p","a","t","i",
          "o","n",".","\n","\n"," ","h","t","t","p","s",":","/","/","l","i",
          "g","h","t","n","i","n","g","-","g","o","a","t","s",".","c","o","m",
          "\n","\n">>)>>,
      <<<<"2">>, StrTemplate(
        <<"⚡"," ","S","y","s","t","e","m"," ","r","e","s","e","t",":"," ","D",
          "a","i","l","y"," ","C","y","b","e","r","H","e","r","d"," ","c","y",
          "c","l","e"," ","h","a","s"," ","b","e","g","u","n","."," ","P","r",
          "e","v","i","o","u","s"," ","c","o","n","t","r","i","b","u","t","i",
          "o","n","s"," ","h","a","v","e"," ","b","e","e","n"," ","c","l","e",
          "a","r","e","d","."," ","W","e","l","c","o","m","e"," ","t","o"," ",
          "p","a","r","t","i","c","i","p","a","t","e","!","\n","\n"," ","h",
          "t","t","p","s",":","/","/","l","i","g","h","t","n","i","n","g","-",
          "g","o","a","t","s",".","c","o","m","\n","\n">>)>>,
      <<<<"3">>, StrTemplate(
        <<"U+1F504"," ","C","y","b","e","r","H","e","r","d"," ","d","a","i",
          "l","y"," ","r","e","s","e","t"," ","e","x","e","c","u","t","e","d",
          "."," ","A","l","l"," ","m","e","m","b","e","r"," ","b","a","l","a",
          "n","c","e","s"," ","r","e","s","e","t"," ","t","o"," ","z","e","r",
          "o","."," ","T","i","m","e"," ","t","o"," ","s","t","a","r","t"," ",
          "c","o","n","t","r","i","b","u","t","i","n","g"," ","a","g","a","i",
          "n","!","\n","\n"," ","h","t","t","p","s",":","/","/","l","i","g",
          "h","t","n","i","n","g","-","g","o","a","t","s",".","c","o","m",
          "\n","\n">>)>>,
      <<<<"4">>, StrTemplate(
        <<"U+1F31F"," ","N","e","w"," ","d","a","y",","," ","n","e","w"," ",
          "o","p","p","o","r","t","u","n","i","t","i","e","s","!"," ","C","y",
          "b","e","r","H","e","r","d"," ","h","a","s"," ","b","e","e","n"," ",
          "r","e","s","e","t"," ","a","n","d"," ","i","s"," ","r","e","a","d",
          "y"," ","f","o","r"," ","f","r","e","s","h"," ","c","o","n","t","r",
          "i","b","u","t","i","o","n","s",".","\n","\n"," ","h","t","t","p",
          "s",":","/","/","l","i","g","h","t","n","i","n","g","-","g","o","a",
          "t","s",".","c","o","m","\n","\n">>)>>
    >>

\* defaults.py
FEEDER_TRIGGER ==
    <<
      <<<<"0">>, DictTemplate(
        <<"U+1F389"," ","F","e","e","d","e","r"," ","a","c","t","i","v","a",
          "t","e","d","!"," ","{","n","e","w","_","a","m","o","u","n","t","}",
          " ","s","a","t","s"," ","h","a","v","e"," ","t","r","i","g","g","e",
          "r","e","d"," ","t","h","e"," ","f","e","e","d","i","n","g"," ","m",
          "e","c","h","a","n","i","s","m","."," ","{","d","i","f","f","e","r",
          "e","n","c","e","_","m","e","s","s","a","g","e","}"," ","S","c","i",
          "e","n","t","i","f","i","c"," ","f","a","c","t",":"," ","G","o","a",
          "t","s",","," ","s","u","c","h"," ","a","s"," ","{","g","o","a","t",
          "_","n","a","m","e","}",","," ","h","a","v","e"," ","u","n","i","q",
          "u","e","l","y"," ","s","h","a","p","e","d"," ","r","e","c","t","a",
          "n","g","u","l","a","r"," ","p","u","p","i","l","s",","," ","w","h",
          "i","c","h"," ","p","r","o","v","i","d","e"," ","t","h","e","m"," ",
          "a"," ","w","i","d","e"," ","f","i","e","l","d"," ","o","f"," ","v",
          "i","s","i","o","n",","," ","a","i","d","i","n","g"," ","i","n"," ",
          "p","r","e","d","a","t","o","r"," ","d","e","t","e","c","t","i","o",
          "n",".","\n","\n"," ","h","t","t","p","s",":","/","/","l","i","g",
          "h","t","n","i","n","g","-","g","o","a","t","s",".","c","o","m",
          "\n","\n">>,
        <<"h","t","t","p","s",":","/","/","r","e","l","a","y",".","d","a","m",
          "u","s",".","i","o">>)>>,
      <<<<"1">>, DictTemplate(
        <<"⚡"," ","F","e","e","d","e","r"," ","t","r","i","g","g","e","r"," ",
          "r","e","a","c","h","e","d","!"," ","{","n","e","w","_","a","m","o",
          "u","n","t","}"," ","s","a","t","s"," ","c","o","l","l","e","c","t",
          "e","d"," ","-"," ","d","i","s","p","e","n","s","i","n","g"," ","t",
          "r","e","a","t","s"," ","t","o"," ","C","y","b","e","r","H","e","r",
          "d"," ","m","e","m","b","e","r","s","."," ","{","d","i","f","f","e",
          "r","e","n","c","e","_","m","e","s","s","a","g","e","}"," ","F","u",
          "n"," ","f","a","c","t",":"," ","{","g","o","a","t","_","n","a","m",
          "e","}"," ","a","n","d"," ","o","t","h","e","r"," ","g","o","a","t",
          "s"," ","a","r","e"," ","i","n","c","r","e","d","i","b","l","y"," ",
          "a","g","i","l","e"," ","c","l","i","m","b","e","r","s",","," ","c",
          "a","p","a","b","l","e"," ","o","f"," ","s","c","a","l","i","n","g",
          " ","s","t","e","e","p"," ","t","e","r","r","a","i","n"," ","w","i",
          "t","h"," ","e","a","s","e",".","\n","\n"," ","h","t","t","p","s",
          ":","/","/","l","i","g","h","t","n","i","n","g","-","g","o","a","t",
          "s",".","c","o","m","\n","\n">>,
        <<"h","t","t","p","s",":","/","/","r","e","l","a","y",".","s","n","o",
          "r","t",".","s","o","c","i","a","l">>)>>,
      <<<<"2">>, DictTemplate(
        <<"U+1F38A"," ","F","e","e","d","i","n","g"," ","t","i","m","e","!",
          " ","T","h","e"," ","C","y","b","e","r","H","e","r","d"," ","h","a",
          "s"," ","c","o","l","l","e","c","t","e","d"," ","{","n","e","w","_",
          "a","m","o","u","n","t","}"," ","s","a","t","s"," ","a","n","d"," ",
          "t","h","e"," ","f","e","e","d","e","r"," ","h","a","s"," ","b","e",
          "e","n"," ","a","c","t","i","v","a","t","e","d","."," ","{","d","i",
          "f","f","e","r","e","n","c","e","_","m","e","s","s","a","g","e","}",
          " ","D","i","d"," ","y","o","u"," ","k","n","o","w","?"," ","{","g",
          "o","a","t","_","n","a","m","e","}"," ","r","e","p","r","e","s","e",
          "n","t","s"," ","t","h","e"," ","c","u","r","i","o","u","s"," ","a",
          "n","d"," ","i","n","t","e","l","l","i","g","e","n","t"," ","n","a",
          "t","u","r","e"," ","o","f"," ","g","o","a","t","s"," ","i","n"," ",
          "g","e","n","e","r","a","l",".","\n","\n"," ","h","t","t","p","s",
          ":","/","/","l","i","g","h","t","n","i","n","g","-","g","o","a","t",
          "s",".","c","o","m","\n","\n">>,
        <<"h","t","t","p","s",":","/","/","n","o","s","t","r","-","p","u","b",
          ".","w","e","l","l","o","r","d","e","r",".","n","e","t">>)>>,
      <<<<"3">>, DictTemplate(
        <<"U+1F680"," ","F","e","e","d","e","r"," ","a","c","t","i","v","a",
          "t","e","d"," ","w","i","t","h"," ","{","n","e","w","_","a","m","o",
          "u","n","t","}"," ","s","a","t","s","!"," ","C","y","b","e","r","H",
          "e","r","d"," ","m","e","m","b","e","r","s"," ","w","i","l","l"," ",
          "r","e","c","e","i","v","e"," ","t","h","e","i","r"," ","e","a","r",
          "n","e","d"," ","r","e","w","a","r","d","s","."," ","{","d","i","f",
          "f","e","r","e","n","c","e","_","m","e","s","s","a","g","e","}"," ",
          "I","n","t","e","r","e","s","t","i","n","g",":"," ","G","o","a","t",
          "s"," ","l","i","k","e"," ","{","g","o","a","t","_","n","a","m","e",
          "}"," ","h","a","v","e"," ","e","x","c","e","l","l","e","n","t"," ",
          "m","e","m","o","r","i","e","s"," ","a","n","d"," ","c","a","n"," ",
          "r","e","c","o","g","n","i","z","e"," ","o","t","h","e","r"," ","g",
          "o","a","t","s"," ","a","n","d"," ","h","u","m","a","n","s"," ","f",
          "o","r"," ","y","e","a","r","s",".","\n","\n"," ","h","t","t","p",
          "s",":","/","/","l","i","g","h","t","n","i","n","g","-","g","o","a",
          "t","s",".","c","o","m","\n","\n">>,
        <<"h","t","t","p","s",":","/","/","n","o","s","t","r","-","p","u","b",
          ".","w","e","l","l","o","r","d","e","r",".","n","e","t">>)>>,
      <<<<"4">>, DictTemplate(
        <<"⚡"," ","C","y","b","e","r","H","e","r","d"," ","f","e","e","d","i",
          "n","g"," ","i","n","i","t","i","a","t","e","d","!"," ","{","n","e",
          "w","_","a","m","o","u","n","t","}"," ","s","a","t","s"," ","c","o",
          "l","l","e","c","t","e","d"," ","-"," ","t","r","e","a","t","s"," ",
          "b","e","i","n","g"," ","d","i","s","t","r","i","b","u","t","e","d",
          " ","n","o","w","."," ","{","d","i","f","f","e","r","e","n","c","e",
          "_","m","e","s","s","a","g","e","}"," ","G","o","a","t"," ","t","r",
          "i","v","i","a",":"," ","{","g","o","a","t","_","n","a","m","e","}",
          " ","e","x","e","m","p","l","i","f","i","e","s"," ","h","o","w"," ",
          "g","o","a","t","s"," ","u","s","e"," ","t","h","e","i","r"," ","p",
          "r","e","h","e","n","s","i","l","e"," ","t","o","n","g","u","e","s",
          " ","t","o"," ","b","e"," ","s","e","l","e","c","t","i","v","e"," ",
          "e","a","t","e","r","s",","," ","o","f","t","e","n"," ","c","h","o",
          "o","s","i","n","g"," ","t","h","e"," ","m","o","s","t"," ","n","u",
          "t","r","i","t","i","o","u","s"," ","p","a","r","t","s"," ","o","f",
          " ","a"," ","p","l","a","n","t",".","\n","\n"," ","h","t","t","p",
          "s",":","/","/","l","i","g","h","t","n","i","n","g","-","g","o","a",
          "t","s",".","c","o","m","\n","\n">>,
        <<"h","t","t","p","s",":","/","/","r","e","l","a","y",".","s","n","o",
          "r","t",".","s","o","c","i","a","l">>)>>
    >>

\* defaults.py
FEEDING_REGULAR ==
    <<
      <<<<"0">>, StrTemplate(
        <<"{","d","i","s","p","l","a","y","_","n","a","m","e","}"," ","r","e",
          "c","e","i","v","e","d"," ","{","n","e","w","_","a","m","o","u","n",
          "t","}"," ","s","a","t","s"," ","f","r","o","m"," ","C","y","b","e",
          "r","H","e","r","d"," ","d","i","s","t","r","i","b","u","t","i","o",
          "n",".","\n","\n"," ","h","t","t","p","s",":","/","/","l","i","g",
          "h","t","n","i","n","g","-","g","o","a","t","s",".","c","o","m",
          "\n","\n">>)>>,
      <<<<"1">>, StrTemplate(
        <<"R","e","g","u","l","a","r"," ","f","e","e","d","i","n","g",":"," ",
          "{","d","i","s","p","l","a","y","_","n","a","m","e","}"," ","h","a",
          "s"," ","b","e","e","n"," ","c","r","e","d","i","t","e","d"," ","w",
          "i","t","h"," ","{","n","e","w","_","a","m","o","u","n","t","}"," ",
          "s","a","t","s",".","\n","\n"," ","h","t","t","p","s",":","/","/",
          "l","i","g","h","t","n","i","n","g","-","g","o","a","t","s",".","c",
          "o","m","\n","\n">>)>>,
      <<<<"2">>, StrTemplate(
        <<"⚡"," ","C","y","b","e","r","H","e","r","d"," ","p","a","y","o","u",
          "t",":"," ","{","n","e","w","_","a","m","o","u","n","t","}"," ","s",
          "a","t","s"," ","s","e","n","t"," ","t","o"," ","{","d","i","s","p",
          "l","a","y","_","n","a","m","e","}",".","\n","\n"," ","h","t","t",
          "p","s",":","/","/","l","i","g","h","t","n","i","n","g","-","g","o",
          "a","t","s",".","c","o","m","\n","\n">>)>>,
      <<<<"3">>, StrTemplate(
        <<"D","i","s","t","r","i","b","u","t","i","o","n"," ","c","o","m","p",
          "l","e","t","e",":"," ","{","d","i","s","p","l","a","y","_","n","a",
          "m","e","}"," ","r","e","c","e","i","v","e","d"," ","{","n","e","w",
          "_","a","m","o","u","n","t","}"," ","s","a","t","s"," ","f","r","o",
          "m"," ","t","h","e"," ","h","e","r","d",".","\n","\n"," ","h","t",
          "t","p","s",":","/","/","l","i","g","h","t","n","i","n","g","-","g",
          "o","a","t","s",".","c","o","m","\n","\n">>)>>,
      <<<<"4">>, StrTemplate(
        <<"F","e","e","d","i","n","g"," ","r","e","w","a","r","d",":"," ","{",
          "n","e","w","_","a","m","o","u","n","t","}"," ","s","a","t","s"," ",
          "d","e","l","i","v","e","r","e","d"," ","t","o"," ","{","d","i","s",
          "p","l","a","y","_","n","a","m","e","}",".","\n","\n"," ","h","t",
          "t","p","s",":","/","/","l","i","g","h","t","n","i","n","g","-","g",
          "o","a","t","s",".","c","o","m","\n","\n">>)>>
    >>

\* defaults.py
FEEDING_BONUS ==
    <<
      <<<<"0">>, StrTemplate(
        <<"U+1F381"," ","B","o","n","u","s"," ","f","e","e","d","i","n","g",
          "!"," ","{","d","i","s","p","l","a","y","_","n","a","m","e","}"," ",
          "r","e","c","e","i","v","e","d"," ","{","n","e","w","_","a","m","o",
          "u","n","t","}"," ","s","a","t","s"," ","a","s"," ","a"," ","s","p",
          "e","c","i","a","l"," ","r","e","w","a","r","d",".","\n","\n"," ",
          "h","t","t","p","s",":","/","/","l","i","g","h","t","n","i","n","g",
          "-","g","o","a","t","s",".","c","o","m","\n","\n">>)>>,
      <<<<"1">>, StrTemplate(
        <<"⚡"," ","S","p","e","c","i","a","l"," ","b","o","n","u","s",":"," ",
          "{","d","i","s","p","l","a","y","_","n","a","m","e","}"," ","h","a",
          "s"," ","b","e","e","n"," ","c","r","e","d","i","t","e","d"," ","w",
          "i","t","h"," ","{","n","e","w","_","a","m","o","u","n","t","}"," ",
          "s","a","t","s",".","\n","\n"," ","h","t","t","p","s",":","/","/",
          "l","i","g","h","t","n","i","n","g","-","g","o","a","t","s",".","c",
          "o","m","\n","\n">>)>>,
      <<<<"2">>, StrTemplate(
        <<"U+1F38A"," ","B","o","n","u","s"," ","d","i","s","t","r","i","b",
          "u","t","i","o","n",":"," ","{","n","e","w","_","a","m","o","u","n",
          "t","}"," ","s","a","t","s"," ","s","e","n","t"," ","t","o"," ","{",
          "d","i","s","p","l","a","y","_","n","a","m","e","}",".","\n","\n",
          " ","h","t","t","p","s",":","/","/","l","i","g","h","t","n","i","n",
          "g","-","g","o","a","t","s",".","c","o","m","\n","\n">>)>>,
      <<<<"3">>, StrTemplate(
        <<"E","x","t","r","a"," ","r","e","w","a","r","d",":"," ","{","d","i",
          "s","p","l","a","y","_","n","a","m","e","}"," ","r","e","c","e","i",
          "v","e","d"," ","{","n","e","w","_","a","m","o","u","n","t","}"," ",
          "s","a","t","s"," ","b","o","n","u","s"," ","f","r","o","m"," ","C",
          "y","b","e","r","H","e","r","d",".","\n","\n"," ","h","t","t","p",
          "s",":","/","/","l","i","g","h","t","n","i","n","g","-","g","o","a",
          "t","s",".","c","o","m","\n","\n">>)>>,
      <<<<"4">>, StrTemplate(
        <<"U+1F389"," ","S","p","e","c","i","a","l"," ","f","e","e","d","i",
          "n","g",":"," ","{","n","e","w","_","a","m","o","u","n","t","}"," ",
          "s","a","t","s"," ","b","o","n","u","s"," ","d","e","l","i","v","e",
          "r","e","d"," ","t","o"," ","{","d","i","s","p","l","a","y","_","n",
          "a","m","e","}",".","\n","\n"," ","h","t","t","p","s",":","/","/",
          "l","i","g","h","t","n","i","n","g","-","g","o","a","t","s",".","c",
          "o","m","\n","\n">>)>>
    >>

\* defaults.py
FEEDING_REMAINDER ==
    <<
      <<<<"0">>, StrTemplate(
        <<"U+1F4E6"," ","R","e","m","a","i","n","d","e","r"," ","d","i","s",
          "t","r","i","b","u","t","i","o","n",":"," ","{","d","i","s","p","l",
          "a","y","_","n","a","m","e","}"," ","r","e","c","e","i","v","e","d",
          " ","{","n","e","w","_","a","m","o","u","n","t","}"," ","s","a","t",
          "s"," ","f","r","o","m"," ","r","e","m","a","i","n","i","n","g"," ",
          "f","u","n","d","s",".","\n","\n"," ","h","t","t","p","s",":","/",
          "/","l","i","g","h","t","n","i","n","g","-","g","o","a","t","s",".",
          "c","o","m","\n","\n">>)>>,
      <<<<"1">>, StrTemplate(
        <<"F","i","n","a","l"," ","p","a","y","o","u","t",":"," ","{","d","i",
          "s","p","l","a","y","_","n","a","m","e","}"," ","h","a","s"," ","b",
          "e","e","n"," ","c","r","e","d","i","t","e","d"," ","w","i","t","h",
          " ","{","n","e","w","_","a","m","o","u","n","t","}"," ","s","a","t",
          "s"," ","r","e","m","a","i","n","d","e","r",".","\n","\n"," ","h",
          "t","t","p","s",":","/","/","l","i","g","h","t","n","i","n","g","-",
          "g","o","a","t","s",".","c","o","m","\n","\n">>)>>,
      <<<<"2">>, StrTemplate(
        <<"⚡"," ","R","e","m","a","i","n","d","e","r"," ","f","u","n","d","s",
          ":"," ","{","n","e","w","_","a","m","o","u","n","t","}"," ","s","a",
          "t","s"," ","s","e","n","t"," ","t","o"," ","{","d","i","s","p","l",
          "a","y","_","n","a","m","e","}",".","\n","\n"," ","h","t","t","p",
          "s",":","/","/","l","i","g","h","t","n","i","n","g","-","g","o","a",
          "t","s",".","c","o","m","\n","\n">>)>>,
      <<<<"3">>, StrTemplate(
        <<"L","e","f","t","o","v","e","r"," ","d","i","s","t","r","i","b","u",
          "t","i","o","n",":"," ","{","d","i","s","p","l","a","y","_","n","a",
          "m","e","}"," ","r","e","c","e","i","v","e","d"," ","{","n","e","w",
          "_","a","m","o","u","n","t","}"," ","s","a","t","s"," ","f","r","o",
          "m"," ","r","e","m","a","i","n","d","e","r",".","\n","\n"," ","h",
          "t","t","p","s",":","/","/","l","i","g","h","t","n","i","n","g","-",
          "g","o","a","t","s",".","c","o","m","\n","\n">>)>>,
      <<<<"4">>, StrTemplate(
        <<"F","i","n","a","l"," ","d","i","s","t","r","i","b","u","t","i","o",
          "n",":"," ","{","n","e","w","_","a","m","o","u","n","t","}"," ","s",
          "a","t","s"," ","r","e","m","a","i","n","d","e","r"," ","d","e","l",
          "i","v","e","r","e","d"," ","t","o"," ","{","d","i","s","p","l","a",
          "y","_","n","a","m","e","}",".","\n","\n"," ","h","t","t","p","s",
          ":","/","/","l","i","g","h","t","n","i","n","g","-","g","o","a","t",
          "s",".","c","o","m","\n","\n">>)>>
    >>

\* defaults.py
FEEDING_FALLBACK ==
    <<
      <<<<"0">>, StrTemplate(
        <<"U+1F504"," ","F","a","l","l","b","a","c","k"," ","d","i","s","t",
          "r","i","b","u","t","i","o","n",":"," ","{","d","i","s","p","l","a",
          "y","_","n","a","m","e","}"," ","r","e","c","e","i","v","e","d"," ",
          "{","n","e","w","_","a","m","o","u","n","t","}"," ","s","a","t","s",
          " ","v","i","a"," ","p","r","e","d","e","f","i","n","e","d"," ","w",
          "a","l","l","e","t",".","\n","\n"," ","h","t","t","p","s",":","/",
          "/","l","i","g","h","t","n","i","n","g","-","g","o","a","t","s",".",
          "c","o","m","\n","\n">>)>>,
      <<<<"1">>, StrTemplate(
        <<"S","y","s","t","e","m"," ","f","a","l","l","b","a","c","k",":"," ",
          "{","d","i","s","p","l","a","y","_","n","a","m","e","}"," ","h","a",
          "s"," ","b","e","e","n"," ","c","r","e","d","i","t","e","d"," ","w",
          "i","t","h"," ","{","n","e","w","_","a","m","o","u","n","t","}"," ",
          "s","a","t","s",".","\n","\n"," ","h","t","t","p","s",":","/","/",
          "l","i","g","h","t","n","i","n","g","-","g","o","a","t","s",".","c",
          "o","m","\n","\n">>)>>,
      <<<<"2">>, StrTemplate(
        <<"⚡"," ","F","a","l","l","b","a","c","k"," ","p","a","y","o","u","t",
          ":"," ","{","n","e","w","_","a","m","o","u","n","t","}"," ","s","a",
          "t","s"," ","s","e","n","t"," ","t","o"," ","{","d","i","s","p","l",
          "a","y","_","n","a","m","e","}",".","\n","\n"," ","h","t","t","p",
          "s",":","/","/","l","i","g","h","t","n","i","n","g","-","g","o","a",
          "t","s",".","c","o","m","\n","\n">>)>>,
      <<<<"3">>, StrTemplate(
        <<"P","r","e","d","e","f","i","n","e","d"," ","d","i","s","t","r","i",
          "b","u","t","i","o","n",":"," ","{","d","i","s","p","l","a","y","_",
          "n","a","m","e","}"," ","r","e","c","e","i","v","e","d"," ","{","n",
          "e","w","_","a","m","o","u","n","t","}"," ","s","a","t","s"," ","f",
          "a","l","l","b","a","c","k",".","\n","\n"," ","h","t","t","p","s",
          ":","/","/","l","i","g","h","t","n","i","n","g","-","g","o","a","t",
          "s",".","c","o","m","\n","\n">>)>>,
      <<<<"4">>, StrTemplate(
        <<"S","y","s","t","e","m"," ","d","i","s","t","r","i","b","u","t","i",
          "o","n",":"," ","{","n","e","w","_","a","m","o","u","n","t","}"," ",
          "s","a","t","s"," ","f","a","l","l","b","a","c","k"," ","d","e","l",
          "i","v","e","r","e","d"," ","t","o"," ","{","d","i","s","p","l","a",
          "y","_","n","a","m","e","}",".","\n","\n"," ","h","t","t","p","s",
          ":","/","/","l","i","g","h","t","n","i","n","g","-","g","o","a","t",
          "s",".","c","o","m","\n","\n">>)>>
    >>


S_member_display_name == <<"m","e","m","b","e","r","_","d","i","s","p","l","a","y","_","n","a","m","e">>
S_display_name == <<"d","i","s","p","l","a","y","_","n","a","m","e">>
S_name == <<"n","a","m","e">>
S_nprofile == <<"n","p","r","o","f","i","l","e">>
S_semantic_event_type == <<"_","s","e","m","a","n","t","i","c","_","e","v","e","n","t","_","t","y","p","e">>
S_event_type == <<"e","v","e","n","t","_","t","y","p","e">>
S_type == <<"t","y","p","e">>
S_cyber_herd == <<"c","y","b","e","r","_","h","e","r","d">>
S_new_member == <<"n","e","w","_","m","e","m","b","e","r">>
S_amount == <<"a","m","o","u","n","t">>

\* str(n) of an int
RECURSIVE IntStr(_)
IntStr(n) ==
    IF n < 0 THEN <<"-">> \o IntStr(0 - n)
    ELSE IF n < 10 THEN <<HexLower[n + 1]>>
    ELSE IntStr(n \div 10) \o <<HexLower[(n % 10) + 1]>>

\* a dict held as a value of another dict; no template of the model formats one
DictVal(items) ==
    [kind |-> "dict", text |-> <<>>, truthy |-> items # <<>>, items |-> items]

\* a bytes object, which the json module cannot serialise
BytesVal(text) == Value("bytes", <<"b","'">> \o text \o <<"'">>, text # <<>>)

\* a or b or c: the first operand that is true, the last one otherwise
RECURSIVE OrChain(_)
OrChain(operands) ==
    IF Len(operands) = 1 \/ operands[1].truthy THEN operands[1]
    ELSE OrChain(Tail(operands))

\* the argument isinstance(..., str) and the codec see in a dict value
AsText(v) == IF v.kind = "str" THEN v.text ELSE IF v.kind = "none" THEN None ELSE NotAString

\* the reference, or None, as a value
RefVal(ref) == IF ref = None THEN NoneValue ELSE StrVal(ref)

\* _normalize_nprofile(ch_item.get(key))
NormalizedProfile(ch_item, key) ==
    LET v == GetOr(ch_item, key, NoneValue) IN
    IF v.kind = "str" THEN StrVal(_normalize_nprofile(v.text)) ELSE v

S_thank_you_variations == <<"t","h","a","n","k","_","y","o","u","_","v","a","r","i","a","t","i","o","n","s">>
S_thank_you_variation == <<"t","h","a","n","k","_","y","o","u","_","v","a","r","i","a","t","i","o","n">>

\* _format_thanks
_format_thanks(amount, template_overrides, choice) ==
    IF ~amount.truthy THEN <<>>
    ELSE LET over == IF /\ HasKey(template_overrides, S_thank_you_variations)
                        /\ Get(template_overrides, S_thank_you_variations) # <<>>
                     THEN Get(template_overrides, S_thank_you_variations)
                     ELSE IF HasKey(template_overrides, S_thank_you_variation)
                     THEN Get(template_overrides, S_thank_you_variation)
                     ELSE <<>>
             pool == IF over # <<>> THEN over ELSE THANK_YOU_VARIATIONS
             text == _pick_template(pool, choice).content
             formatted == str_format(text, << <<S_new_amount, amount>> >>)
         IN  IF text = <<>> THEN <<>>
             ELSE IF formatted.raised THEN text ELSE formatted.text

S_spots_prefix == <<"⚡"," ">>
S_spots_plural == <<" ","m","o","r","e"," ","s","p","o","t","s"," ","a","v","a","i","l","a","b","l","e","."," ","⚡">>
S_spots_singular == <<"⚡"," ","1"," ","m","o","r","e"," ","s","p","o","t"," ","a","v","a","i","l","a","b","l","e","."," ","⚡">>

\* mutant: the notice of one remaining spot in the plural form, and the
\* displacement notice whenever a candidate record is present
_build_spots_and_headbutt_info_plural(spots_remaining, ch_item, template_overrides, choice) ==
    LET info == GetOr(ch_item, S_headbutt_info, NoneValue).items IN
    [spots_info |-> IF spots_remaining >= 1
                    THEN S_spots_prefix \o IntStr(spots_remaining) \o S_spots_plural
                    ELSE <<>>,
     headbutt_text |->
        IF GetOr(ch_item, S_headbutt_info, NoneValue).truthy
        THEN <<" ">> \o _format_template(
                 _pick_template(_pool(template_overrides, S_headbutt_info, HEADBUTT_INFO), choice),
                 << <<S_required_sats, GetOr(info, S_required_sats, IntVal(<<"1","0">>))>>,
                    <<S_victim_name, GetOr(info, S_victim_name, StrVal(S_Anon))>> >>)
        ELSE <<>>]

\* _build_spots_and_headbutt_info; pool_func is _pool under the overrides of
\* the call
_build_spots_and_headbutt_info(spots_remaining, ch_item, template_overrides, choice) ==
    LET info == GetOr(ch_item, S_headbutt_info, NoneValue).items IN
    [spots_info |-> IF spots_remaining > 1
                    THEN S_spots_prefix \o IntStr(spots_remaining) \o S_spots_plural
                    ELSE IF spots_remaining = 1 THEN S_spots_singular
                    ELSE <<>>,
     headbutt_text |->
        IF spots_remaining = 0 /\ GetOr(ch_item, S_headbutt_info, NoneValue).truthy
        THEN <<" ">> \o _format_template(
                 _pick_template(_pool(template_overrides, S_headbutt_info, HEADBUTT_INFO), choice),
                 << <<S_required_sats, GetOr(info, S_required_sats, IntVal(<<"1","0">>))>>,
                    <<S_victim_name, GetOr(info, S_victim_name, StrVal(S_Anon))>> >>)
        ELSE <<>>]

\* a bundle with the fields the membership branches set
MemberBundle(nostr_content, websocket_content, extras, spots_remaining) ==
    [MessageBundle(nostr_content, websocket_content, None)
     EXCEPT !.spots_info = extras.spots_info, !.spots_remaining = spots_remaining,
            !.headbutt_text = extras.headbutt_text]


S_cyber_herd_join == <<"c","y","b","e","r","_","h","e","r","d","_","j","o","i","n">>
S_event_id == <<"e","v","e","n","t","_","i","d">>
S_pubkey == <<"p","u","b","k","e","y">>
S_anon == <<"a","n","o","n">>
S_feeder_triggered == <<"f","e","e","d","e","r","_","t","r","i","g","g","e","r","e","d">>
S_feeder_trigger_bolt12 == <<"f","e","e","d","e","r","_","t","r","i","g","g","e","r","_","b","o","l","t","1","2">>
S_feeder_trigger == <<"f","e","e","d","e","r","_","t","r","i","g","g","e","r">>
S_headbutt_success == <<"h","e","a","d","b","u","t","t","_","s","u","c","c","e","s","s">>
S_headbutt_failure == <<"h","e","a","d","b","u","t","t","_","f","a","i","l","u","r","e">>
S_attacker_name == <<"a","t","t","a","c","k","e","r","_","n","a","m","e">>
S_attacker_amount == <<"a","t","t","a","c","k","e","r","_","a","m","o","u","n","t">>
S_victim_amount == <<"v","i","c","t","i","m","_","a","m","o","u","n","t">>
S_attacker_pubkey == <<"a","t","t","a","c","k","e","r","_","p","u","b","k","e","y">>
S_attacker_nprofile == <<"a","t","t","a","c","k","e","r","_","n","p","r","o","f","i","l","e">>
S_attacker_display_name == <<"a","t","t","a","c","k","e","r","_","d","i","s","p","l","a","y","_","n","a","m","e">>
S_next_headbutt_info == <<"n","e","x","t","_","h","e","a","d","b","u","t","t","_","i","n","f","o">>
S_required_amount == <<"r","e","q","u","i","r","e","d","_","a","m","o","u","n","t">>
S_cyber_herd_treats == <<"c","y","b","e","r","_","h","e","r","d","_","t","r","e","a","t","s">>
S_member_increase == <<"m","e","m","b","e","r","_","i","n","c","r","e","a","s","e">>
S_new_zap_amount == <<"n","e","w","_","z","a","p","_","a","m","o","u","n","t">>
S_member_name == <<"m","e","m","b","e","r","_","n","a","m","e">>
S_increase_amount == <<"i","n","c","r","e","a","s","e","_","a","m","o","u","n","t">>
S_new_total == <<"n","e","w","_","t","o","t","a","l">>
S_daily_reset == <<"d","a","i","l","y","_","r","e","s","e","t">>
S_herd_reset_message == <<"h","e","r","d","_","r","e","s","e","t","_","m","e","s","s","a","g","e">>
S_interface_info == <<"i","n","t","e","r","f","a","c","e","_","i","n","f","o">>
S_kind_6_headbutt_failure == <<"k","i","n","d","_","6","_","h","e","a","d","b","u","t","t","_","f","a","i","l","u","r","e">>
S_kind_6_repost == <<"k","i","n","d","_","6","_","r","e","p","o","s","t">>
S_kind_7_headbutt_failure == <<"k","i","n","d","_","7","_","h","e","a","d","b","u","t","t","_","f","a","i","l","u","r","e">>
S_kind_7_reaction == <<"k","i","n","d","_","7","_","r","e","a","c","t","i","o","n">>
S_sats_received_zap == <<"s","a","t","s","_","r","e","c","e","i","v","e","d","_","z","a","p">>
S_zapper_displaces_kind_6 == <<"z","a","p","p","e","r","_","d","i","s","p","l","a","c","e","s","_","k","i","n","d","_","6">>
S_zapper_displaces_kind_7 == <<"z","a","p","p","e","r","_","d","i","s","p","l","a","c","e","s","_","k","i","n","d","_","7">>
S_feeding_regular == <<"f","e","e","d","i","n","g","_","r","e","g","u","l","a","r">>
S_feeding_bonus == <<"f","e","e","d","i","n","g","_","b","o","n","u","s">>
S_feeding_remainder == <<"f","e","e","d","i","n","g","_","r","e","m","a","i","n","d","e","r">>
S_feeding_fallback == <<"f","e","e","d","i","n","g","_","f","a","l","l","b","a","c","k">>
S_member == <<"m","e","m","b","e","r">>
S_thanks_part == <<"t","h","a","n","k","s","_","p","a","r","t">>
S_event == <<"e","v","e","n","t">>
S_payload == <<"p","a","y","l","o","a","d">>
S_bolt_prefix == <<"⚡","B","O","L","T","1","2"," ","P","A","Y","M","E","N","T","⚡"," ">>

\* lines 311-346 and 609-637 once the template is drawn: the payment branches
PaymentBundle(a, template, bolt_prefix, choices, sample) ==
    LET content == _safe_template_content(template)
        difference_message == _format_variation(a.difference, a.template_overrides, choices[2])
        goats == IF Contains(content, S_goat_name_field) THEN _select_goats(sample)
                 ELSE [goat_data |-> None, goat_names |-> <<>>,
                       goat_profiles |-> <<>>, goat_mentions |-> <<>>]
        kwargs(goat_name) == << <<S_new_amount, a.new_amount>>,
                                <<S_goat_name, StrVal(goat_name)>>,
                                <<S_difference_message, StrVal(difference_message)>> >>
        nostr_body == str_format(content, kwargs(IF goats.goat_mentions # <<>>
                                                 THEN goats.goat_mentions
                                                 ELSE goats.goat_profiles))
        websocket_body == str_format(content, kwargs(goats.goat_names))
    IN  IF nostr_body.raised \/ websocket_body.raised THEN BuildRaised
        ELSE MessageBundle(
                 _strip_promotional_link(bolt_prefix \o nostr_body.text, is_30311_reply(a)),
                 bolt_prefix \o websocket_body.text, goats.goat_data)

\* build_message lines 263-309, event types "cyber_herd" and "new_member"
BuildCyberHerd(a, choices) ==
    LET ch_item == a.cyber_herd_item
        template == _pick_template(
                        _pool(a.template_overrides, S_cyber_herd_join, CYBER_HERD_JOIN),
                        choices[1])
        display_name == GetOr(ch_item, S_display_name, StrVal(S_anon))
        event_id == GetOr(ch_item, S_event_id, StrVal(<<>>))
        pub_key == GetOr(ch_item, S_pubkey, StrVal(<<>>))
        nprofile == NormalizedProfile(ch_item, S_nprofile)
        amount == GetOr(ch_item, S_amount, IntVal(<<"0">>))
        thank_you == _format_thanks(amount, a.template_overrides, choices[2])
        nostr_name == OrChain(<<RefVal(format_nostr_pubkey(AsText(pub_key))), nprofile,
                                RefVal(format_nostr_event_reference(AsText(event_id))),
                                display_name>>)
        extras == _build_spots_and_headbutt_info(a.spots_remaining, ch_item,
                                                 a.template_overrides, choices[3])
        kwargs(name) == << <<S_thanks_part, StrVal(thank_you)>>, <<S_name, name>>,
                           <<S_difference, a.difference>>, <<S_new_amount, amount>>,
                           <<S_event_id, event_id>> >>
    IN  MemberBundle(
            _strip_promotional_link(
                _format_template(template, kwargs(nostr_name))
                    \o extras.spots_info \o extras.headbutt_text,
                is_30311_reply(a)),
            _format_template(template, kwargs(display_name))
                \o extras.spots_info \o extras.headbutt_text,
            extras, a.spots_remaining)

\* build_message lines 311-346, event types "feeder_triggered" and
\* "feeder_trigger_bolt12"
BuildFeeder(a, choices, sample) ==
    PaymentBundle(a,
                  _pick_template(_pool(a.template_overrides, S_feeder_trigger, FEEDER_TRIGGER),
                                 choices[1]),
                  IF a.event_type = S_feeder_trigger_bolt12 THEN S_bolt_prefix ELSE <<>>,
                  choices, sample)

\* lines 404-411: the notice of the next displacement candidate
NextHeadbuttText(ch_item, template_overrides, choice) ==
    LET next == GetOr(ch_item, S_next_headbutt_info, NoneValue) IN
    IF ~next.truthy THEN <<>>
    ELSE <<" ">> \o _format_template(
             _pick_template(_pool(template_overrides, S_headbutt_info, HEADBUTT_INFO), choice),
             << <<S_required_sats, GetOr(next.items, S_required_sats, IntVal(<<"1","0">>))>>,
                <<S_victim_name, GetOr(next.items, S_victim_name, StrVal(S_Anon))>> >>)

\* build_message lines 367-419, event type "headbutt_success"
BuildHeadbuttSuccess(a, choices) ==
    LET ch_item == a.cyber_herd_item
        template == _pick_template(
                        _pool(a.template_overrides, S_headbutt_success, HEADBUTT_SUCCESS),
                        choices[1])
        attacker_name == GetOr(ch_item, S_attacker_name, StrVal(S_Anon))
        attacker_amount == GetOr(ch_item, S_attacker_amount, IntVal(<<"0">>))
        victim_name == GetOr(ch_item, S_victim_name, StrVal(S_Anon))
        victim_amount == GetOr(ch_item, S_victim_amount, IntVal(<<"0">>))
        attacker_pubkey == GetOr(ch_item, S_attacker_pubkey, StrVal(<<>>))
        victim_pubkey == GetOr(ch_item, S_victim_pubkey, StrVal(<<>>))
        nostr_attacker ==
            OrChain(<<RefVal(format_nostr_pubkey(AsText(attacker_pubkey))),
                      NormalizedProfile(ch_item, S_attacker_nprofile),
                      RefVal(format_nostr_event_reference(
                                 AsText(GetOr(ch_item, S_event_id, NoneValue)))),
                      attacker_name>>)
        nostr_victim == OrChain(<<RefVal(format_nostr_pubkey(AsText(victim_pubkey))),
                                  NormalizedProfile(ch_item, S_victim_nprofile),
                                  victim_name>>)
        kwargs(attacker, victim) ==
            << <<S_attacker_name, attacker>>, <<S_attacker_amount, attacker_amount>>,
               <<S_victim_name, victim>>, <<S_victim_amount, victim_amount>> >>
        headbutt_text == NextHeadbuttText(ch_item, a.template_overrides, choices[3])
    IN  [MessageBundle(
             _strip_promotional_link(
                 _format_template(template, kwargs(nostr_attacker, nostr_victim))
                     \o headbutt_text,
                 is_30311_reply(a)),
             _format_template(template,
                              kwargs(GetOr(ch_item, S_attacker_display_name, attacker_name),
                                     GetOr(ch_item, S_victim_display_name, victim_name)))
                 \o headbutt_text,
             None)
         EXCEPT !.headbutt_text = headbutt_text]

\* build_message lines 421-456, event type "headbutt_failure"
BuildHeadbuttFailure(a, choices) ==
    LET ch_item == a.cyber_herd_item
        template == _pick_template(
                        _pool(a.template_overrides, S_headbutt_failure, HEADBUTT_FAILURE),
                        choices[1])
        attacker_name == GetOr(ch_item, S_attacker_name, StrVal(S_Anon))
        victim_name == GetOr(ch_item, S_victim_name, StrVal(S_Anon))
        nostr_attacker ==
            OrChain(<<RefVal(format_nostr_pubkey(
                                 AsText(GetOr(ch_item, S_attacker_pubkey, StrVal(<<>>))))),
                      NormalizedProfile(ch_item, S_attacker_nprofile), attacker_name>>)
        nostr_victim ==
            OrChain(<<RefVal(format_nostr_pubkey(
                                 AsText(GetOr(ch_item, S_victim_pubkey, StrVal(<<>>))))),
                      NormalizedProfile(ch_item, S_victim_nprofile), victim_name>>)
        kwargs(attacker, victim) ==
            << <<S_attacker_name, attacker>>,
               <<S_attacker_amount, GetOr(ch_item, S_attacker_amount, IntVal(<<"0">>))>>,
               <<S_victim_name, victim>>,
               <<S_victim_amount, GetOr(ch_item, S_victim_amount, IntVal(<<"0">>))>>,
               <<S_required_amount, GetOr(ch_item, S_required_amount, IntVal(<<"0">>))>> >>
    IN  MessageBundle(
            _strip_promotional_link(
                _format_template(template, kwargs(nostr_attacker, nostr_victim)),
                is_30311_reply(a)),
            _format_template(template,
                             kwargs(GetOr(ch_item, S_attacker_display_name, attacker_name),
                                    GetOr(ch_item, S_victim_display_name, victim_name))),
            None)

\* build_message lines 458-468, event type "cyber_herd_treats"
BuildCyberHerdTreats(a, choices) ==
    LET ch_item == a.cyber_herd_item
        template == _pick_template(
                        _pool(a.template_overrides, S_cyber_herd_treats, CYBER_HERD_TREATS),
                        choices[1])
        display_name == GetOr(ch_item, S_display_name, StrVal(S_Anon))
        amount == GetOr(ch_item, S_amount, IntVal(<<"0">>))
        nostr_name ==
            OrChain(<<RefVal(format_nostr_pubkey(AsText(GetOr(ch_item, S_pubkey, NoneValue)))),
                      NormalizedProfile(ch_item, S_nprofile), display_name>>)
    IN  MessageBundle(
            _format_template(template, << <<S_name, nostr_name>>, <<S_new_amount, amount>> >>),
            _format_template(template, << <<S_name, display_name>>, <<S_new_amount, amount>> >>),
            None)

\* build_message lines 470-505, event type "member_increase"
BuildMemberIncrease(a, choices) ==
    LET ch_item == a.cyber_herd_item
        template == _pick_template(
                        _pool(a.template_overrides, S_member_increase, MEMBER_INCREASE),
                        choices[1])
        display_name == GetOr(ch_item, S_display_name, StrVal(S_Anon))
        nostr_name ==
            OrChain(<<RefVal(format_nostr_pubkey(
                                 AsText(GetOr(ch_item, S_pubkey, StrVal(<<>>))))),
                      NormalizedProfile(ch_item, S_nprofile), display_name>>)
        extras == _build_spots_and_headbutt_info(a.spots_remaining, ch_item,
                                                 a.template_overrides, choices[3])
        kwargs(name) ==
            << <<S_member_name, name>>,
               <<S_increase_amount, GetOr(ch_item, S_new_zap_amount, IntVal(<<"0">>))>>,
               <<S_new_total, GetOr(ch_item, S_amount, IntVal(<<"0">>))>> >>
    IN  MemberBundle(
            _strip_promotional_link(
                _format_template(template, kwargs(nostr_name))
                    \o extras.spots_info \o extras.headbutt_text,
                is_30311_reply(a)),
            _format_template(template, kwargs(display_name))
                \o extras.spots_info \o extras.headbutt_text,
            extras, a.spots_remaining)

\* build_message lines 507-510 and 525-528, event types "daily_reset" (the
\* pool through _pool) and "herd_reset_message" (DAILY_RESET itself)
BuildDailyReset(a, choices) ==
    LET pool == IF a.event_type = S_daily_reset
                THEN _pool(a.template_overrides, S_daily_reset, DAILY_RESET)
                ELSE DAILY_RESET
        content == _format_template(_pick_template(pool, choices[1]), <<>>)
    IN  MessageBundle(content, content, None)

\* json.dumps of a str: the quotes and the escapes of the characters of the
\* model (ensure_ascii=False leaves every other character as it is)
RECURSIVE json_escape(_)
json_escape(s) ==
    IF s = <<>> THEN <<>>
    ELSE (IF s[1] = "\"" THEN <<"\\","\"">>
          ELSE IF s[1] = "\\" THEN <<"\\","\\">>
          ELSE IF s[1] = "\n" THEN <<"\\","n">>
          ELSE IF s[1] = "\t" THEN <<"\\","t">>
          ELSE <<s[1]>>) \o json_escape(Tail(s))

\* json.dumps of a value and of the items of a dict: a value the encoder has
\* no representation for raises TypeError
RECURSIVE json_dumps_value(_)
RECURSIVE json_dumps_items(_)
json_dumps_value(v) ==
    IF v.kind = "str" THEN Rendered(<<"\"">> \o json_escape(v.text) \o <<"\"">>)
    ELSE IF v.kind = "int" THEN Rendered(v.text)
    ELSE IF v.kind = "none" THEN Rendered(<<"n","u","l","l">>)
    ELSE IF v.kind = "bool" THEN Rendered(Lower(v.text))
    ELSE IF v.kind = "dict"
    THEN LET inner == json_dumps_items(v.items) IN
         IF inner.raised THEN RenderError
         ELSE Rendered(<<"{">> \o inner.text \o <<"}">>)
    ELSE RenderError

json_dumps_items(items) ==
    IF items = <<>> THEN Rendered(<<>>)
    ELSE LET first == json_dumps_value(items[1][2])
             rest == json_dumps_items(Tail(items))
         IN  IF first.raised \/ rest.raised THEN RenderError
             ELSE Rendered(<<"\"">> \o json_escape(items[1][1]) \o <<"\"",":"," ">>
                           \o first.text
                           \o (IF Len(items) > 1 THEN <<","," ">> ELSE <<>>) \o rest.text)

\* lines 535-536, 550-551, 583-584, 645-646, 692-693 and 714-716:
\* json.dumps({"event": event_type, "payload": ch_item}, ensure_ascii=False)
FallbackBundle(a) ==
    LET dumped == json_dumps_value(
                      DictVal(<< <<S_event, StrVal(a.event_type)>>,
                                 <<S_payload, [DictVal(a.cyber_herd_item)
                                               EXCEPT !.truthy = TRUE]>> >>))
    IN  IF dumped.raised THEN BuildRaised
        ELSE MessageBundle(dumped.text, dumped.text, None)

\* getattr(TEMPLATES, pool_name, None): the templates module is an argument
\* of the model, a dict from the names it defines to their pools
HasTemplates(templates, pool_name) == HasKey(templates, pool_name)

\* build_message lines 531-542, event type "interface_info"
BuildInterfaceInfo(a, choices, templates) ==
    IF ~HasTemplates(templates, S_interface_info) THEN FallbackBundle(a)
    ELSE LET template == _pick_template(Get(templates, S_interface_info), choices[1]) IN
         MessageBundle(
             _strip_promotional_link(_format_template(template, <<>>), is_30311_reply(a)),
             _format_template(template, <<>>), None)

\* build_message lines 545-575, event types "kind_6_repost" and
\* "kind_7_reaction"
BuildRepost(a, choices, templates) ==
    IF ~HasTemplates(templates, a.event_type) THEN FallbackBundle(a)
    ELSE LET ch_item == a.cyber_herd_item
             template == _pick_template(Get(templates, a.event_type), choices[1])
             display_name == GetOr(ch_item, S_display_name, StrVal(S_Anon))
             nostr_name ==
                 OrChain(<<RefVal(format_nostr_pubkey(
                                      AsText(GetOr(ch_item, S_pubkey, StrVal(<<>>))))),
                           NormalizedProfile(ch_item, S_nprofile), display_name>>)
             extras == _build_spots_and_headbutt_info(a.spots_remaining, ch_item,
                                                      a.template_overrides, choices[3])
         IN  MemberBundle(
                 _strip_promotional_link(
                     _format_template(template, << <<S_name, nostr_name>> >>)
                         \o extras.spots_info \o extras.headbutt_text,
                     is_30311_reply(a)),
                 _format_template(template, << <<S_name, display_name>> >>)
                     \o extras.spots_info \o extras.headbutt_text,
                 extras, a.spots_remaining)

\* build_message lines 578-606, event types "kind_6_headbutt_failure" and
\* "kind_7_headbutt_failure"
BuildRepostHeadbuttFailure(a, choices, templates) ==
    IF ~HasTemplates(templates, a.event_type) THEN FallbackBundle(a)
    ELSE LET ch_item == a.cyber_herd_item
             template == _pick_template(Get(templates, a.event_type), choices[1])
             display_name == GetOr(ch_item, S_display_name, StrVal(S_Anon))
             nostr_name ==
                 OrChain(<<RefVal(format_nostr_pubkey(
                                      AsText(GetOr(ch_item, S_pubkey, StrVal(<<>>))))),
                           NormalizedProfile(ch_item, S_nprofile), display_name>>)
             required_sats == GetOr(ch_item, S_required_sats,
                                    GetOr(ch_item, S_required_amount, IntVal(<<"0">>)))
             victim_display == GetOr(ch_item, S_victim_display_name,
                                     GetOr(ch_item, S_victim_name, StrVal(S_Anon)))
             nostr_victim ==
                 OrChain(<<RefVal(format_nostr_pubkey(
                                      AsText(GetOr(ch_item, S_victim_pubkey, StrVal(<<>>))))),
                           NormalizedProfile(ch_item, S_victim_nprofile), victim_display>>)
             kwargs(name, victim) ==
                 << <<S_name, name>>, <<S_required_sats, required_sats>>,
                    <<S_victim_name, victim>> >>
         IN  MessageBundle(
                 _strip_promotional_link(
                     _format_template(template, kwargs(nostr_name, nostr_victim)),
                     is_30311_reply(a)),
                 _format_template(template, kwargs(display_name, victim_display)),
                 None)

\* build_message lines 609-637, event type "sats_received_zap"
BuildSatsReceivedZap(a, choices, sample) ==
    PaymentBundle(a, _pick_template(SATS_RECEIVED, choices[1]), <<>>, choices, sample)

\* build_message lines 640-688, event types "zapper_displaces_kind_6" and
\* "zapper_displaces_kind_7"
BuildZapperDisplaces(a, choices, templates) ==
    IF ~HasTemplates(templates, a.event_type) THEN FallbackBundle(a)
    ELSE LET ch_item == a.cyber_herd_item
             template == _pick_template(Get(templates, a.event_type), choices[1])
             attacker_name == GetOr(ch_item, S_attacker_display_name,
                                    GetOr(ch_item, S_attacker_name, StrVal(S_Anon)))
             nostr_attacker ==
                 OrChain(<<RefVal(format_nostr_pubkey(
                                      AsText(GetOr(ch_item, S_attacker_pubkey, StrVal(<<>>))))),
                           NormalizedProfile(ch_item, S_attacker_nprofile), attacker_name>>)
             victim_name == GetOr(ch_item, S_victim_display_name,
                                  GetOr(ch_item, S_victim_name, StrVal(S_Anon)))
             nostr_victim ==
                 OrChain(<<RefVal(format_nostr_pubkey(
                                      AsText(GetOr(ch_item, S_victim_pubkey, StrVal(<<>>))))),
                           NormalizedProfile(ch_item, S_victim_nprofile), victim_name>>)
             extras == _build_spots_and_headbutt_info(a.spots_remaining, ch_item,
                                                      a.template_overrides, choices[3])
             kwargs(attacker, victim) ==
                 << <<S_attacker_name, attacker>>,
                    <<S_attacker_amount, GetOr(ch_item, S_attacker_amount, IntVal(<<"0">>))>>,
                    <<S_victim_name, victim>> >>
         IN  MemberBundle(
                 _strip_promotional_link(
                     _format_template(template, kwargs(nostr_attacker, nostr_victim))
                         \o extras.spots_info \o extras.headbutt_text,
                     is_30311_reply(a)),
                 _format_template(template, kwargs(attacker_name, victim_name))
                     \o extras.spots_info \o extras.headbutt_text,
                 extras, a.spots_remaining)

\* build_message lines 695-711, the four "feeding_..." event types
BuildFeeding(a, choices) ==
    LET pool == IF a.event_type = S_feeding_regular THEN FEEDING_REGULAR
                ELSE IF a.event_type = S_feeding_bonus THEN FEEDING_BONUS
                ELSE IF a.event_type = S_feeding_remainder THEN FEEDING_REMAINDER
                ELSE FEEDING_FALLBACK
        display_name == GetOr(a.cyber_herd_item, S_display_name, StrVal(S_member))
        amount == IF a.new_amount.truthy THEN a.new_amount ELSE IntVal(<<"0">>)
        content == _format_template(_pick_template(pool, choices[1]),
                                    << <<S_new_amount, amount>>,
                                       <<S_display_name, display_name>>,
                                       <<S_name, display_name>> >>)
    IN  MessageBundle(content, content, None)

\* the event types that lines 263-711 test for
SupportedEventTypes ==
    { S_cyber_herd, S_new_member, S_feeder_triggered, S_feeder_trigger_bolt12,
      S_sats_received, S_headbutt_info, S_headbutt_success, S_headbutt_failure,
      S_cyber_herd_treats, S_member_increase, S_daily_reset, S_herd_reset_message,
      S_interface_info, S_kind_6_headbutt_failure, S_kind_6_repost,
      S_kind_7_headbutt_failure, S_kind_7_reaction, S_sats_received_zap,
      S_zapper_displaces_kind_6, S_zapper_displaces_kind_7, S_feeding_regular,
      S_feeding_bonus, S_feeding_remainder, S_feeding_fallback }

\* the body of build_message: the branch of the event type, or the fallback
\* of lines 713-716
BuildBundle(a, choices, sample, templates) ==
    LET e == a.event_type IN
    IF e \in {S_cyber_herd, S_new_member} THEN BuildCyberHerd(a, choices)
    ELSE IF e \in {S_feeder_triggered, S_feeder_trigger_bolt12}
    THEN BuildFeeder(a, choices, sample)
    ELSE IF e = S_sats_received THEN BuildSatsReceived(a, choices, sample)
    ELSE IF e = S_headbutt_info THEN BuildHeadbuttInfo(a, choices)
    ELSE IF e = S_headbutt_success THEN BuildHeadbuttSuccess(a, choices)
    ELSE IF e = S_headbutt_failure THEN BuildHeadbuttFailure(a, choices)
    ELSE IF e = S_cyber_herd_treats THEN BuildCyberHerdTreats(a, choices)
    ELSE IF e = S_member_increase THEN BuildMemberIncrease(a, choices)
    ELSE IF e \in {S_daily_reset, S_herd_reset_message} THEN BuildDailyReset(a, choices)
    ELSE IF e = S_interface_info THEN BuildInterfaceInfo(a, choices, templates)
    ELSE IF e \in {S_kind_6_repost, S_kind_7_reaction} THEN BuildRepost(a, choices, templates)
    ELSE IF e \in {S_kind_6_headbutt_failure, S_kind_7_headbutt_failure}
    THEN BuildRepostHeadbuttFailure(a, choices, templates)
    ELSE IF e = S_sats_received_zap THEN BuildSatsReceivedZap(a, choices, sample)
    ELSE IF e \in {S_zapper_displaces_kind_6, S_zapper_displaces_kind_7}
    THEN BuildZapperDisplaces(a, choices, templates)
    ELSE IF e \in {S_feeding_regular, S_feeding_bonus, S_feeding_remainder,
                   S_feeding_fallback}
    THEN BuildFeeding(a, choices)
    ELSE FallbackBundle(a)

----------------------------------------------------------------------------
(* render_and_publish_template, services.py lines 621-893.  The values of a  *)
(* call are a flat dict of strings and integers: they carry no _goat_bundle  *)
(* and no cyber_herd_item, and the key _goat_bundle that line 784 adds to    *)
(* them is referenced by no template.                                        *)

\* values.get(k1) or values.get(k2) or values.get(k3)
FirstTruthy(values, keys) ==
    LET truthy == {k \in 1..Len(keys) : HasKey(values, keys[k]) /\ Get(values, keys[k]).truthy}
    IN  IF truthy # {} THEN Get(values, keys[Min(truthy)])
        ELSE IF HasKey(values, keys[Len(keys)]) THEN Get(values, keys[Len(keys)])
        ELSE NoneValue

\* _augment_membership_rendered_content lines 553-558: the values name a
\* membership event
IsMembership(values) ==
    LET event_type == FirstTruthy(values, <<S_semantic_event_type, S_event_type, S_type>>)
    IN  event_type.kind = "str" /\ Strip(event_type.text) \in {S_cyber_herd, S_new_member}

S_cyber_herd_item == <<"c","y","b","e","r","_","h","e","r","d","_","i","t","e","m">>
S_member_pubkey == <<"m","e","m","b","e","r","_","p","u","b","k","e","y">>
S_member_nprofile == <<"m","e","m","b","e","r","_","n","p","r","o","f","i","l","e">>
S_note_id == <<"n","o","t","e","_","i","d">>
S_initial_amount == <<"i","n","i","t","i","a","l","_","a","m","o","u","n","t">>
S_spots_remaining == <<"s","p","o","t","s","_","r","e","m","a","i","n","i","n","g">>
S__spots_remaining == <<"_","s","p","o","t","s","_","r","e","m","a","i","n","i","n","g">>

\* a stripped string in decimal notation (digits, with an optional sign and
\* an optional fraction), the notation float() accepts among the values drawn
Unsigned(text) == IF text # <<>> /\ text[1] \in {"-", "+"} THEN Tail(text) ELSE text

WholePart(text) ==
    LET dots == {i \in 1..Len(Unsigned(text)) : Unsigned(text)[i] = "."}
    IN  IF dots = {} THEN Unsigned(text) ELSE SubSeq(Unsigned(text), 1, Min(dots) - 1)

IsDecimal(text) ==
    LET dots == {i \in 1..Len(Unsigned(text)) : Unsigned(text)[i] = "."}
    IN  /\ Cardinality(dots) <= 1
        /\ Len(Unsigned(text)) > Cardinality(dots)
        /\ \A i \in 1..Len(Unsigned(text)) : Unsigned(text)[i] \in Digits \cup {"."}

\* int(float(text)) of such a string
IntOfText(text) ==
    IF text[1] = "-" THEN 0 - DigitsToInt(WholePart(text)) ELSE DigitsToInt(WholePart(text))

\* _coerce_int, lines 468-482
_coerce_int(value, default) ==
    IF value.kind = "none" THEN default
    ELSE IF value.kind = "bool" THEN (IF value.truthy THEN 1 ELSE 0)
    ELSE IF value.kind = "int" THEN IntOfText(value.text)
    ELSE IF ~IsDecimal(Strip(value.text)) THEN default
    ELSE IntOfText(Strip(value.text))

\* dict.setdefault
SetDefault(d, key, value) == IF HasKey(d, key) THEN d ELSE SetKey(d, key, value)

\* the first of the keys whose value is not None, lines 579-581
FirstNotNone(values, keys) ==
    LET set == {k \in 1..Len(keys) : GetOr(values, keys[k], NoneValue).kind # "none"}
    IN  IF set = {} THEN NoneValue ELSE Get(values, keys[Min(set)])

\* _augment_membership_rendered_content lines 560-611: the arguments of the
\* call of build_message
AugmentBuildArgs(values, a, template_overrides) ==
    LET event_type == FirstTruthy(values, <<S_semantic_event_type, S_event_type, S_type>>)
        given == GetOr(values, S_cyber_herd_item, NoneValue)
        item0 == IF given.kind = "dict" THEN given.items ELSE <<>>
        display_name == OrChain(<<GetOr(values, S_member_display_name, NoneValue),
                                  GetOr(values, S_display_name, NoneValue),
                                  GetOr(item0, S_display_name, NoneValue),
                                  StrVal(S_Anon)>>)
        item1 == SetDefault(item0, S_display_name, display_name)
        item2 == SetDefault(item1, S_pubkey,
                            OrChain(<<GetOr(values, S_member_pubkey, NoneValue),
                                      GetOr(values, S_pubkey, NoneValue),
                                      GetOr(item1, S_pubkey, NoneValue)>>))
        item3 == SetDefault(item2, S_nprofile,
                            OrChain(<<GetOr(values, S_member_nprofile, NoneValue),
                                      GetOr(values, S_nprofile, NoneValue),
                                      GetOr(item2, S_nprofile, NoneValue)>>))
        item4 == SetDefault(item3, S_event_id,
                            OrChain(<<GetOr(values, S_event_id, NoneValue),
                                      GetOr(values, S_note_id, NoneValue),
                                      GetOr(item3, S_event_id, NoneValue)>>))
        amount_candidate ==
            IF GetOr(item4, S_amount, NoneValue).kind # "none" THEN Get(item4, S_amount)
            ELSE FirstNotNone(values, <<S_initial_amount, S_new_amount, S_amount,
                                        S_increase_amount>>)
        item5 == SetKey(item4, S_amount, IntVal(IntStr(_coerce_int(amount_candidate, 0))))
        headbutt_info == GetOr(values, S_headbutt_info, NoneValue)
        ch_item == IF headbutt_info.truthy /\ headbutt_info.kind = "dict"
                   THEN SetDefault(item5, S_headbutt_info, headbutt_info)
                   ELSE item5
        difference == GetOr(values, S_difference, IntVal(<<"0">>))
        new_amount == IF GetOr(values, S_new_amount, NoneValue).kind # "none"
                      THEN Get(values, S_new_amount)
                      ELSE GetOr(values, S_initial_amount, Get(ch_item, S_amount))
        spots_remaining == _coerce_int(
                               GetOr(values, S_spots_remaining,
                                     GetOr(values, S__spots_remaining, IntVal(<<"0">>))), 0)
    IN  [event_type |-> Strip(event_type.text),
         new_amount |-> IntVal(IntStr(_coerce_int(new_amount, 0))),
         difference |-> IntVal(IntStr(_coerce_int(difference, 0))),
         cyber_herd_item |-> ch_item, spots_remaining |-> spots_remaining,
         template_overrides |-> template_overrides,
         reply_to_30311_event |-> a.reply_to_30311_event,
         reply_to_30311_a_tag |-> a.reply_to_30311_a_tag]

\* lines 612-618: the content with the notices of the bundle appended, and
\* the bundle; the content alone when build_message raised
AugmentedWith(base_content, bundle) ==
    IF bundle.raised
    THEN [content |-> base_content, augmented |-> FALSE, bundle |-> BuildRaised]
    ELSE [content |-> base_content \o bundle.spots_info \o bundle.headbutt_text,
          augmented |-> TRUE, bundle |-> bundle]

\* _augment_membership_rendered_content; template_overrides is what
\* _load_template_overrides returned for the user named in the values, and
\* build_message, called for "cyber_herd" or "new_member" only (line 557),
\* takes its branch of lines 263-309
_augment_membership_rendered_content(base_content, values, a, template_overrides, choices) ==
    IF ~IsMembership(values)
    THEN [content |-> base_content, augmented |-> FALSE, bundle |-> BuildRaised]
    ELSE CHOOSE result \in
             { AugmentedWith(base_content, bundle) :
                 bundle \in { BuildCyberHerd(args, choices) :
                                args \in { AugmentBuildArgs(v, a, template_overrides) :
                                             v \in {values} } } } :
             TRUE

\* _normalize_profile, lines 767-771
_normalize_profile(val) ==
    IF ~Truthy(val) THEN <<>>
    ELSE IF StartsWith(val, S_nostr) THEN val ELSE S_nostr \o val

\* str.isalnum() of one character
IsAlnum(c) == c \in SeqToSet(LowerAlphabet) \cup SeqToSet(UpperAlphabet) \cup Digits

RECURSIVE Slug(_)
Slug(name) ==
    IF name = <<>> THEN <<>>
    ELSE (IF IsAlnum(LowerChar(name[1])) THEN <<LowerChar(name[1])>> ELSE <<>>) \o Slug(Tail(name))

\* _normalize_goat_data._fallback_image
_fallback_image(name) ==
    IF name = <<>> \/ Slug(name) = <<>> THEN <<>> ELSE S_images \o Slug(name) \o S_png

\* _normalize_goat_data for the (name, profile, pubkey) tuples of
\* get_random_goat_names
_normalize_goat_data(raw) ==
    IF raw = <<>> THEN None
    ELSE [i \in 1..Len(raw) |->
            [name |-> IF raw[i][1] = <<>> THEN <<"G","o","a","t">> ELSE raw[i][1],
             imageUrl |-> _fallback_image(raw[i][1])]]

\* lines 852-865
RECURSIVE goat_p_tags(_)
goat_p_tags(raw) ==
    IF raw = <<>> THEN <<>>
    ELSE (IF raw[1][3] # <<>> /\ validate_pubkey_hex(raw[1][3])
          THEN <<Lower(Strip(raw[1][3]))>> ELSE <<>>) \o goat_p_tags(Tail(raw))

\* lines 868-873
RECURSIVE combined_p_tags(_, _)
combined_p_tags(p_tags, goat_pubkeys) ==
    IF goat_pubkeys = <<>> THEN p_tags
    ELSE combined_p_tags(
             IF \E i \in 1..Len(p_tags) : Lower(Strip(p_tags[i])) = goat_pubkeys[1]
             THEN p_tags ELSE Append(p_tags, goat_pubkeys[1]),
             Tail(goat_pubkeys))

\* mutant: the call goes on to publish_note in websocket mode too
ReturnsForWebsocketNever(a) == FALSE

\* line 838: the call returns for the websocket instead of publishing
ReturnsForWebsocket(a) == a.return_websocket_message

\* the call from line 758 up to its return or to its call of publish_note,
\* ext being what line 757 extracted: the values formatted with, the outcome
\* of the formatting, and what is returned or handed to publish_note;
\* template_overrides is what _load_template_overrides returns for the user
\* named in the values, choices are the draws of build_message
RenderTemplate(a, sample, ext, template_overrides, choices) ==
    LET template_content == ext.content
        uses_goats == template_content # <<>> /\ Contains(template_content, S_goat_name_field)
        raw_goats == IF uses_goats THEN get_random_goat_names(sample) ELSE <<>>
        names == join_with_and([i \in 1..Len(raw_goats) |-> raw_goats[i][1]])
        profiles == join_with_and([i \in 1..Len(raw_goats) |-> _normalize_profile(raw_goats[i][2])])
        \* lines 786-795
        values1 == IF ~uses_goats THEN a.values
                   ELSE SetKey(a.values, S_goat_name,
                               StrVal(IF a.return_websocket_message THEN names ELSE profiles))
        \* lines 798-810
        given_item == GetOr(values1, S_cyber_herd_item, NoneValue)
        display_name_for_ws ==
            OrChain(<<GetOr(values1, S_member_display_name, NoneValue),
                      GetOr(values1, S_display_name, NoneValue),
                      GetOr(IF given_item.kind = "dict" THEN given_item.items ELSE <<>>,
                            S_display_name, NoneValue)>>)
        current_name == GetOr(values1, S_name, StrVal(<<>>))
        values2 == IF /\ a.return_websocket_message
                      /\ display_name_for_ws.truthy
                      /\ current_name.kind = "str"
                      /\ \/ Contains(current_name.text, S_nostr)
                         \/ StartsWith(current_name.text, S_nprofile)
                   THEN SetKey(values1, S_name, display_name_for_ws)
                   ELSE values1
        \* lines 813-819
        rendered == safe_format(template_content, values2)
        \* lines 839-848
        goat_data(augmented) ==
            IF augmented.augmented /\ augmented.bundle.goat_data # None
            THEN augmented.bundle.goat_data
            ELSE _normalize_goat_data(raw_goats)
        ws_content(augmented) ==
            IF augmented.augmented /\ augmented.bundle.websocket_content # <<>>
            THEN augmented.bundle.websocket_content
            ELSE augmented.content
        \* lines 876-883
        tpl_reply_norm == IF Truthy(ext.reply) THEN normalize_relay_hint(ext.reply) ELSE None
        effective_reply_relay ==
            IF Truthy(a.reply_relay) THEN a.reply_relay
            ELSE IF Truthy(tpl_reply_norm) THEN tpl_reply_norm
            ELSE normalize_relay_hint(a.template_obj.reply_relay)
        blank == [outcome |-> "not_found", template_content |-> <<>>, format_values |-> <<>>,
                  rendered |-> Rendered(<<>>), rendered_content |-> <<>>,
                  augmented |-> FALSE, returned_content |-> <<>>,
                  goat_data |-> None, publish_args |-> NoArgs]
    IN  IF ~a.template_obj.found THEN blank                      \* lines 646-650
        ELSE IF rendered.raised
        THEN [blank EXCEPT !.outcome = "render_failed",          \* lines 815-819
                           !.template_content = template_content,
                           !.format_values = values2, !.rendered = rendered]
        ELSE CHOOSE outcome \in
                 { IF ReturnsForWebsocket(a)
                   THEN [blank EXCEPT !.outcome = "websocket",   \* lines 838-848
                                      !.template_content = template_content,
                                      !.format_values = values2, !.rendered = rendered,
                                      !.rendered_content = augmented.content,
                                      !.augmented = augmented.augmented,
                                      !.returned_content = ws_content(augmented),
                                      !.goat_data = goat_data(augmented)]
                   ELSE [blank EXCEPT !.outcome = "publish",     \* lines 850-893
                                      !.template_content = template_content,
                                      !.format_values = values2, !.rendered = rendered,
                                      !.rendered_content = augmented.content,
                                      !.augmented = augmented.augmented,
                                      !.publish_args =
                                          [NoArgs EXCEPT
                                             !.content = augmented.content,
                                             !.e_tags = a.e_tags,
                                             !.p_tags = combined_p_tags(a.p_tags,
                                                                        goat_p_tags(raw_goats)),
                                             !.reply_to_30311_event = a.reply_to_30311_event,
                                             !.reply_to_30311_a_tag = a.reply_to_30311_a_tag,
                                             !.reply_relay = effective_reply_relay,
                                             !.wallet_id = a.wallet_id]]
                   \* lines 821-836
                   : augmented \in { _augment_membership_rendered_content(
                                         rendered.text, values2, a, template_overrides,
                                         choices) } } :
                 TRUE

\* render_and_publish_template is called: it returns, or it calls
\* publish_note, which runs to its first suspension point as in PublishNote
render_and_publish_template(t, a, sample, template_overrides, choices, readRaises) ==
    /\ pc[t] = "idle"
    /\ \E r \in {RenderTemplate(a, sample, ext, template_overrides, choices) :
                    ext \in {_extract_content_and_reply(a.template_obj.content)}} :
       LET l0 == [render |-> r] @@ InitLoc
           l1 == [l0 EXCEPT !.storedAtRead = setting, !.readRaised = readRaises]
           args == [render_args |-> a, sample |-> sample,
                    template_overrides |-> template_overrides, choices |-> choices]
       IN  IF r.outcome # "publish"
           THEN /\ call' = [call EXCEPT ![t] = args]
                /\ loc' = [loc EXCEPT ![t] =
                             [l0 EXCEPT !.result = IF a.return_websocket_message
                                                   THEN "Returned" ELSE "False"]]
                /\ pc' = [pc EXCEPT ![t] = "done"]
           ELSE /\ call' = [call EXCEPT ![t] = args @@ r.publish_args]
                /\ IF ~readRaises /\ DisabledBySetting(get_setting)
                   THEN /\ loc' = [loc EXCEPT ![t] =
                                     [l1 EXCEPT !.enabled = "False", !.result = "True"]]
                        /\ pc' = [pc EXCEPT ![t] = "done"]
                   ELSE /\ loc' = [loc EXCEPT ![t] = [l1 EXCEPT !.availCalled = TRUE]]
                        /\ pc' = [pc EXCEPT ![t] = "avail_check"]
    /\ UNCHANGED <<user_key, setting, nostrclient_available, lock, probes>>

\* build_message is called; choices are the draws of random.choice (the
\* template, the variation or the thanks, the displacement notice), sample
\* the draw of random.sample, templates the templates module
build_message(t, a, choices, sample, templates) ==
    /\ pc[t] = "idle"
    /\ call' = [call EXCEPT ![t] = [build_args |-> a, choices |-> choices,
                                    sample |-> sample, templates |-> templates]]
    /\ \E bundle \in {BuildBundle(a, choices, sample, templates)} :
           loc' = [loc EXCEPT ![t] =
                     [bundle |-> bundle] @@
                     [InitLoc EXCEPT !.result = IF bundle.raised THEN "Raised" ELSE "Returned"]]
    /\ pc' = [pc EXCEPT ![t] = "done"]
    /\ UNCHANGED <<user_key, setting, nostrclient_available, lock, probes>>

----------------------------------------------------------------------------
(* The rendering specification: one coroutine renders stored templates and   *)
(* builds messages, with publishing enabled or disabled by the setting.      *)

\* stored template bodies: plain text, wrappers of each kind, wrapper-like text
StoredTexts ==
    { <<"H","e","l","l","o"," ","{","n","a","m","e","}">>,
      <<"H","i"," ","{","w","h","o","}"," ","a","n","d"," ","{","n","a","m","e","}">>,
      <<"{","n","a","m","e","[","0","]","}">>,
      <<"{","n","a","m","e",".","_","_","c","l","a","s","s","_","_","}">>,
      <<"{","n","a","m","e">>,
      <<"{","a","m","o","u","n","t","}"," ","s","a","t","s">>,
      <<"{","}">>,
      <<"G","o","a","t","s"," ","{","g","o","a","t","_","n","a","m","e","}"," ","t","h","a","n","k"," ","{","n","a","m","e","}">>,
      <<"{","\"","c","o","n","t","e","n","t","\"",":","\"","H","e","l","l","o"," ","{","n","a","m","e","}","\"",","," ","\"","r","e","p","l","y","_","r","e","l","a","y","\"",":","\"","h","t","t","p","s",":","/","/","r","\"","}">>,
      <<"{","'","c","o","n","t","e","n","t","'",":"," ","'","H","i"," ","{","n","a","m","e","}","'",","," ","'","r","e","p","l","y","_","r","e","l","a","y","'",":"," ","'","h","t","t","p",":","/","/","r","'","}">>,
      <<"{","'","c","o","n","t","e","n","t","'",":"," ","\"","H","i","\"",","," ","'","x","'",":"," ","n","u","l","l","}">>,
      <<"{","'","c","o","n","t","e","n","t","'",":"," ","'","o","k"," ","{","n","a","m","e","}","'",","," ","b","a","d","}">>,
      <<"{","c","o","n","t","e","n","t",":","'","Y","o"," ","{","n","a","m","e","}","'",","," ","r","e","p","l","y","_","r","e","l","a","y",":","'","h","t","t","p","s",":","/","/","r","'","}">>,
      <<"{","\"","x","\"",":"," ","\"","'","c","o","n","t","e","n","t","'",":"," ","'","B","'",",","\"",","," ","\"","c","o","n","t","e","n","t","\"",":"," ","\"","A","\"","}">>,
      <<"{","'","x","'",":"," ","\"","'","c","o","n","t","e","n","t","'",":"," ","'","B","'",",","\"",","," ","'","c","o","n","t","e","n","t","'",":"," ","'","A","'","}">>,
      <<"{","'","f","o","o","'",":"," ","'","b","a","r","'",","," ","'","b","a","z","'",":"," ","1","}">>,
      <<"{","a",":","b","}">>,
      <<"{","w","h","o","}",":","{","n","a","m","e","}">>,
      <<" ","{","n","a","m","e",":",">","3","}"," ">>,
      <<"{","\"","c","o","n","t","e","n","t","\"",":","\"","{","n","a","m","e",".","x","}","\"","}">>,
      <<"{","\"","c","o","n","t","e","n","t","\"",":"," ","\"","\"","}">>,
      <<"{","'","c","o","n","t","e","n","t","'",":"," ","5","}">>,
      <<"{","x",":"," ","1",","," ","c","o","n","t","e","n","t",":"," ","y","o"," ","{","n","a","m","e","}","}">>,
      <<"{","\"","c","o","n","t","e","n","t","\"",":"," ","\"","{","g","o","a","t","_","n","a","m","e","}","\"",","," ","\"","r","e","p","l","y","_","r","e","l","a","y","\"",":"," ","\"","f","t","p",":","/","/","r","\"","}">> }

S_Alice == <<"A","l","i","c","e">>

ValuesInputs ==
    { <<>>,
      << <<S_name, StrVal(S_nostr \o <<"n","p","r","o","f","i","l","e","1","a","b","c">>)>>, <<S_display_name, StrVal(<<"A","l">>)>>,
         <<S_event_type, StrVal(S_cyber_herd)>>, <<S_pubkey, StrVal(ValidPubkey)>>,
         <<S_spots_remaining, IntVal(<<"1">>)>>, <<S_new_amount, IntVal(<<"2","1">>)>> >>,
      << <<S_name, StrVal(S_Alice)>>, <<S_event_type, StrVal(<<>>)>>,
         <<S_type, StrVal(<<" ","n","e","w","_","m","e","m","b","e","r"," ">>)>>,
         <<S_cyber_herd_item, DictVal(<< <<S_display_name, StrVal(<<"A","l">>)>>,
                                         <<S_amount, NoneValue>> >>)>>,
         <<S_headbutt_info, DictVal(<< <<S_required_sats, IntVal(<<"5","0">>)>>,
                                       <<S_victim_name, StrVal(<<"B","o","b">>)>> >>)>>,
         <<S__spots_remaining, StrVal(<<" ","0"," ">>)>>, <<S_initial_amount, StrVal(<<"7",".","9">>)>> >>,
      << <<S_name, StrVal(S_Alice)>>, <<S_amount, IntVal(<<"2","1">>)>> >>,
      << <<S_name, StrVal(S_nostr \o <<"n","p","r","o","f","i","l","e","1","a","b","c">>)>>, <<S_display_name, StrVal(<<"A","l">>)>>,
         <<S_event_type, StrVal(<<"z","a","p">>)>> >>,
      << <<S_name, StrVal(<<"n","p","r","o","f","i","l","e","1","a","b","c">>)>>, <<S_member_display_name, StrVal(<<>>)>>,
         <<S_display_name, StrVal(<<"A","l">>)>>, <<S_goat_name, StrVal(<<"B","i","l","l","y">>)>> >> }

TemplateObjInputs ==
    { [found |-> FALSE, content |-> None, reply_relay |-> None] } \cup
    [found : {TRUE}, content : StoredTexts \cup {None}, reply_relay : {S_httpsr}]

\* random.sample draws of goats, by position in GOAT_NAMES_DICT
SampleInputs == { <<2, 1>>, <<5, 3, 4>> }

RenderArgsInputs ==
    [template_obj : TemplateObjInputs, values : ValuesInputs,
     return_websocket_message : BOOLEAN,
     e_tags : {<<>>}, p_tags : {<<GOAT_NAMES_DICT[1][3]>>},
     reply_to_30311_event : {None}, reply_to_30311_a_tag : {None},
     reply_relay : {None, S_wssr}, wallet_id : {S_w1}]

OverridesInputs ==
    { <<>>,
      << <<S_headbutt_info, << <<<<"0">>, StrTemplate(<<"{","v","i","c","t","i","m","_","n","a","m","e","[","0","]","}"," ","n","e","e","d","s"," ","{","r","e","q","u","i","r","e","d","_","s","a","t","s","}">>)>> >> >> >>,
      << <<S_headbutt_info \o S__dict,
           << <<<<"0">>, DictTemplate(<<"{","v","i","c","t","i","m","_","n","a","m","e","}"," ","{","w","h","o","}","\n","\n"," ","h","t","t","p","s",":","/","/","l","i","g","h","t","n","i","n","g","-","g","o","a","t","s",".","c","o","m","\n","\n","!">>, S_wssr)>>,
              <<<<"1">>, StrTemplate(<<"B"," ","{","v","i","c","t","i","m","_","n","a","m","e",".","_","_","c","l","a","s","s","_","_","}"," ","{","r","e","q","u","i","r","e","d","_","s","a","t","s","}">>)>> >> >> >>,
      << <<S_sats_received, << <<<<"0">>, StrTemplate(<<"{","n","a","m","e","}"," ","s","e","n","t"," ","{","n","e","w","_","a","m","o","u","n","t","}">>)>> >> >> >>,
      << <<S_sats_received \o S__dict,
           << <<<<"0">>, StrTemplate(<<"g","o","t"," ","{","n","e","w","_","a","m","o","u","n","t","}","."," ","{","d","i","f","f","e","r","e","n","c","e","_","m","e","s","s","a","g","e","}"," ","{","g","o","a","t","_","n","a","m","e","}","\n","\n"," ","h","t","t","p","s",":","/","/","l","i","g","h","t","n","i","n","g","-","g","o","a","t","s",".","c","o","m","\n","\n">>)>>,
              <<<<"1">>, DictTemplate(<<"{","n","e","w","_","a","m","o","u","n","t","[","0","]","}">>, S_wssr)>> >> >>,
         <<S_variations, << <<<<"0">>, StrTemplate(<<"{","d","i","f","f","e","r","e","n","c","e","}"," ","t","o"," ","g","o">>)>>,
                            <<<<"1">>, StrTemplate(<<"{","x","}">>)>> >> >> >> }

ChItemInputs ==
    { <<>>,
      << <<S_required_sats, IntVal(<<"5">>)>>, <<S_victim_name, StrVal(<<"B","o","b">>)>>,
         <<S_victim_pubkey, StrVal(ValidPubkey)>> >>,
      << <<S_victim_name, StrVal(<<"B","o","b">>)>>, <<S_victim_nprofile, StrVal(<<"n","p","r","o","f","i","l","e","1","x","y","z">>)>>,
         <<S_victim_display_name, StrVal(<<"B","o","b","b","y">>)>>, <<S_victim_pubkey, StrVal(<<"z","z">>)>> >> }

BuildArgsInputs ==
    [event_type : {S_sats_received, S_headbutt_info},
     new_amount : {IntVal(<<"2","1">>)}, difference : {IntVal(<<"3","0","0">>)},
     cyber_herd_item : ChItemInputs, spots_remaining : {0},
     template_overrides : OverridesInputs,
     reply_to_30311_event : {None, S_x}, reply_to_30311_a_tag : {S_a30311}]

ChoicesInputs == { <<0, 0, 0>>, <<1, 1, 1>>, <<4, 10, 2>> }

\* what _load_template_overrides returns for the values of a call: nothing
\* (no stored template, or the load raised), or the stored join templates;
\* values that name no membership event never reach build_message
RenderOverrides ==
    << <<S_cyber_herd_join, << <<<<"0">>, StrTemplate(<<"J","o","i","n","e","d",":"," ","{","n","a","m","e","}"," ","(","{","n","e","w","_","a","m","o","u","n","t","}",")">>)>> >> >> >>

RenderOverridesInputs(a) == IF IsMembership(a.values) THEN { <<>>, RenderOverrides } ELSE { <<>> }

RenderChoicesInputs(a) ==
    IF IsMembership(a.values) THEN { <<0, 0, 0>>, <<1, 1, 1>> } ELSE { <<0, 0, 0>> }

RenderInit ==
    /\ user_key = None
    /\ setting \in {S_1, S_0}
    /\ nostrclient_available = "True"
    /\ lock = 0
    /\ probes = 1
    /\ pc = [t \in Tasks |-> "idle"]
    /\ call = [t \in Tasks |-> NoArgs]
    /\ loc = [t \in Tasks |-> InitLoc]

RenderNext ==
    \/ /\ pc[1] = "idle"
       /\ \E a \in RenderArgsInputs, sample \in SampleInputs :
             \E template_overrides \in RenderOverridesInputs(a),
                choices \in RenderChoicesInputs(a) :
                render_and_publish_template(1, a, sample, template_overrides, choices, FALSE)
    \/ /\ pc[1] = "idle"
       /\ \E a \in BuildArgsInputs, choices \in ChoicesInputs, sample \in SampleInputs :
             build_message(1, a, choices, sample, <<>>)
    \/ AvailCheck(1)
    \/ Dispatch(1, TRUE)
    \/ \E relay \in {"ok", "publish_raises"} : SignReturns(1, relay)
    \/ Return(1)

RenderSpec == RenderInit /\ [][RenderNext]_vars

----------------------------------------------------------------------------
(* The building specification: one coroutine draws templates and builds the  *)
(* message of every event type.                                              *)

\* the templates module: absent names, or a pool under each name that lines
\* 532-642 ask for
TemplatesModule ==
    << <<S_interface_info, << <<<<"0">>, StrTemplate(<<"A","l","l"," ","s","y","s","t","e","m","s"," ","f","i","n","e",".","\n","\n"," ","h","t","t","p","s",":","/","/","l","i","g","h","t","n","i","n","g","-","g","o","a","t","s",".","c","o","m","\n","\n">>)>>,
                              <<<<"1">>, StrTemplate(<<"S","t","a","t","u","s"," ","{","n","a","m","e","}">>)>> >> >>,
       <<S_kind_6_repost, << <<<<"0">>, StrTemplate(<<"{","n","a","m","e","}"," ","r","e","p","o","s","t","e","d",".","\n","\n"," ","h","t","t","p","s",":","/","/","l","i","g","h","t","n","i","n","g","-","g","o","a","t","s",".","c","o","m","\n","\n">>)>> >> >>,
       <<S_kind_7_reaction, << <<<<"0">>, DictTemplate(<<"{","n","a","m","e","}"," ","r","e","a","c","t","e","d"," ","{","w","h","o","}">>, S_wssr)>> >> >>,
       <<S_kind_6_headbutt_failure,
         << <<<<"0">>, StrTemplate(<<"{","n","a","m","e","}"," ","n","e","e","d","s"," ","{","r","e","q","u","i","r","e","d","_","s","a","t","s","}"," ","t","o"," ","d","i","s","p","l","a","c","e"," ","{","v","i","c","t","i","m","_","n","a","m","e","}",".","\n","\n"," ","h","t","t","p","s",":","/","/","l","i","g","h","t","n","i","n","g","-","g","o","a","t","s",".","c","o","m","\n","\n">>)>> >> >>,
       <<S_kind_7_headbutt_failure,
         << <<<<"0">>, StrTemplate(<<"{","n","a","m","e","}",":"," ","{","r","e","q","u","i","r","e","d","_","s","a","t","s","}"," ",">"," ","{","v","i","c","t","i","m","_","n","a","m","e","}">>)>> >> >>,
       <<S_zapper_displaces_kind_6,
         << <<<<"0">>, StrTemplate(<<"{","a","t","t","a","c","k","e","r","_","n","a","m","e","}"," ","(","{","a","t","t","a","c","k","e","r","_","a","m","o","u","n","t","}",")"," ","d","i","s","p","l","a","c","e","d"," ","{","v","i","c","t","i","m","_","n","a","m","e","}",".","\n","\n"," ","h","t","t","p","s",":","/","/","l","i","g","h","t","n","i","n","g","-","g","o","a","t","s",".","c","o","m","\n","\n">>)>> >> >>,
       <<S_zapper_displaces_kind_7,
         << <<<<"0">>, StrTemplate(<<"{","a","t","t","a","c","k","e","r","_","n","a","m","e","}"," ","o","u","t"," ","{","v","i","c","t","i","m","_","n","a","m","e","}">>)>> >> >> >>

TemplatesInputs == { <<>>, TemplatesModule }

S_Al == <<"A","l">>
S_Bob == <<"B","o","b">>
EventId == Rep("b", 64)

\* item records: empty; every identifier valid; an invalid pubkey with a
\* profile token; an event id only, with a displacement candidate; an
\* invalid event id and a bytes value; an attacker and a victim
ItemEmpty == <<>>
ItemAllValid ==
    << <<S_display_name, StrVal(S_Al)>>, <<S_pubkey, StrVal(ValidPubkey)>>,
       <<S_nprofile, StrVal(<<"n","p","r","o","f","i","l","e","1","a","b","c">>)>>, <<S_event_id, StrVal(EventId)>>,
       <<S_amount, IntVal(<<"5">>)>>, <<S_new_zap_amount, IntVal(<<"2">>)>> >>
ItemProfile ==
    << <<S_display_name, StrVal(S_Al)>>, <<S_pubkey, StrVal(<<"z","z">>)>>,
       <<S_nprofile, StrVal(<<"n","p","r","o","f","i","l","e","1","a","b","c">>)>>, <<S_event_id, StrVal(EventId)>>,
       <<S_amount, IntVal(<<"0">>)>> >>
ItemEventOnly ==
    << <<S_display_name, StrVal(<<"A","l"," ","\"","q","\"">>)>>, <<S_pubkey, StrVal(<<>>)>>,
       <<S_event_id, StrVal(<<" ">> \o EventId \o <<"\n">>)>>,
       <<S_amount, IntVal(<<"7">>)>>,
       <<S_headbutt_info, DictVal(<< <<S_required_sats, IntVal(<<"5","0">>)>>,
                                     <<S_victim_name, StrVal(S_Bob)>> >>)>> >>
ItemNameOnly ==
    << <<S_display_name, StrVal(S_Al)>>, <<S_event_id, StrVal(Rep("b", 63))>>,
       <<S_nprofile, NoneValue>>, <<S_headbutt_info, DictVal(<<>>)>>,
       <<<<"r","a","w">>, BytesVal(<<"x","y">>)>> >>
ItemHeadbutt ==
    << <<S_attacker_name, StrVal(<<"A","t","t">>)>>, <<S_attacker_amount, IntVal(<<"9">>)>>,
       <<S_victim_name, StrVal(<<"V","i","c">>)>>, <<S_victim_amount, IntVal(<<"3">>)>>,
       <<S_attacker_pubkey, StrVal(ValidPubkey)>>,
       <<S_victim_nprofile, StrVal(<<"n","o","s","t","r",":","n","p","r","o","f","i","l","e","1","v">>)>>,
       <<S_victim_display_name, StrVal(<<"V","i","c","k","y">>)>>,
       <<S_event_id, StrVal(EventId)>>, <<S_required_amount, IntVal(<<"4">>)>>,
       <<S_required_sats, IntVal(<<"6">>)>>,
       <<S_next_headbutt_info, DictVal(<< <<S_required_sats, IntVal(<<"1","1">>)>> >>)>> >>

\* override pools under the exact name, under the name with "_dict", under
\* another case, and under names build_message does not look up
BuildOverrides ==
    << <<S_cyber_herd_join,
         << <<<<"0">>, StrTemplate(<<"J"," ","{","n","a","m","e","}"," ","{","t","h","a","n","k","s","_","p","a","r","t","}"," ","{","d","i","f","f","e","r","e","n","c","e","}"," ","{","n","e","w","_","a","m","o","u","n","t","}","\n","\n"," ","h","t","t","p","s",":","/","/","l","i","g","h","t","n","i","n","g","-","g","o","a","t","s",".","c","o","m","\n","\n">>)>> >> >>,
       <<S_thank_you_variation, << <<<<"0">>, StrTemplate(<<"t","y"," ","{","n","e","w","_","a","m","o","u","n","t","}">>)>> >> >>,
       <<S_member_increase \o S__dict,
         << <<<<"0">>, StrTemplate(<<"{","m","e","m","b","e","r","_","n","a","m","e","}"," ","+","{","i","n","c","r","e","a","s","e","_","a","m","o","u","n","t","}","=","{","n","e","w","_","t","o","t","a","l","}">>)>> >> >>,
       <<S_headbutt_info,
         << <<<<"0">>, DictTemplate(<<"H","B"," ","{","r","e","q","u","i","r","e","d","_","s","a","t","s","}"," ","{","v","i","c","t","i","m","_","n","a","m","e","}","\n","\n"," ","h","t","t","p","s",":","/","/","l","i","g","h","t","n","i","n","g","-","g","o","a","t","s",".","c","o","m","\n","\n">>, S_wssr)>> >> >>,
       <<S_feeding_regular, << <<<<"0">>, StrTemplate(<<"O","V","R"," ","{","d","i","s","p","l","a","y","_","n","a","m","e","}">>)>> >> >>,
       <<S_herd_reset_message, << <<<<"0">>, StrTemplate(<<"h","e","r","d"," ","r","e","s","e","t">>)>> >> >>,
       <<S_sats_received_zap, << <<<<"0">>, StrTemplate(<<"z","a","p","p","e","d"," ","{","n","e","w","_","a","m","o","u","n","t","}">>)>> >> >>,
       <<S_daily_reset \o S__dict,
         << <<<<"0">>, StrTemplate(<<"r","e","s","e","t","!","\n","\n"," ","h","t","t","p","s",":","/","/","l","i","g","h","t","n","i","n","g","-","g","o","a","t","s",".","c","o","m","\n","\n">>)>>, <<<<"1">>, StrTemplate(<<"a","g","a","i","n"," ","{","x","}">>)>> >> >>,
       <<S_cyber_herd_treats, << <<<<"0">>, StrTemplate(<<"T"," ","{","n","a","m","e","}"," ","{","n","e","w","_","a","m","o","u","n","t","}","\n","\n"," ","h","t","t","p","s",":","/","/","l","i","g","h","t","n","i","n","g","-","g","o","a","t","s",".","c","o","m","\n","\n","e","n","d">>)>> >> >>,
       <<S_headbutt_success,
         << <<<<"0">>, StrTemplate(<<"{","a","t","t","a","c","k","e","r","_","n","a","m","e","}"," ","b","e","a","t"," ","{","v","i","c","t","i","m","_","n","a","m","e","}"," ","{","v","i","c","t","i","m","_","a","m","o","u","n","t","}">>)>> >> >>,
       <<<<"H","E","A","D","B","U","T","T","_","F","A","I","L","U","R","E">>, << <<<<"0">>, StrTemplate(<<"n","e","v","e","r">>)>> >> >>,
       <<S_headbutt_failure \o S__dict,
         << <<<<"0">>, StrTemplate(<<"{","a","t","t","a","c","k","e","r","_","n","a","m","e","}"," ","f","a","i","l","e","d"," ","{","r","e","q","u","i","r","e","d","_","a","m","o","u","n","t","}"," ","{","v","i","c","t","i","m","_","n","a","m","e","}"," ","{","u","n","k","n","o","w","n","}">>)>> >> >>,
       <<S_feeder_trigger \o S__dict,
         << <<<<"0">>, StrTemplate(<<"f","e","d"," ","{","n","e","w","_","a","m","o","u","n","t","}"," ","{","d","i","f","f","e","r","e","n","c","e","_","m","e","s","s","a","g","e","}","\n","\n"," ","h","t","t","p","s",":","/","/","l","i","g","h","t","n","i","n","g","-","g","o","a","t","s",".","c","o","m","\n","\n">>)>>,
            <<<<"1">>, StrTemplate(<<"{","g","o","a","t","_","n","a","m","e","}"," ","a","t","e">>)>> >> >>,
       <<S_sats_received, << <<<<"0">>, StrTemplate(<<"z","a","p"," ","{","n","e","w","_","a","m","o","u","n","t","}">>)>> >> >>,
       <<S_thank_you_variations, <<>> >> >>

BuildOverridesInputs == { <<>>, BuildOverrides }

\* the calls of build_message: for each group of event types the item
\* records, the remaining spots and the templates modules it is called with
BuildGroups ==
    { [types |-> {S_cyber_herd, S_new_member, S_member_increase},
       items |-> {ItemEmpty, ItemAllValid, ItemProfile, ItemEventOnly, ItemNameOnly},
       spots |-> {-1, 0, 1, 3}, templates |-> {<<>>}],
      [types |-> {S_kind_6_repost, S_kind_7_reaction, S_zapper_displaces_kind_6,
                  S_zapper_displaces_kind_7},
       items |-> {ItemAllValid, ItemEventOnly, ItemHeadbutt},
       spots |-> {0, 1, 3}, templates |-> TemplatesInputs],
      [types |-> {S_headbutt_info, S_headbutt_success, S_headbutt_failure},
       items |-> {ItemEmpty, ItemHeadbutt}, spots |-> {0}, templates |-> {<<>>}],
      [types |-> {S_kind_6_headbutt_failure, S_kind_7_headbutt_failure, S_interface_info},
       items |-> {ItemAllValid, ItemHeadbutt}, spots |-> {0}, templates |-> TemplatesInputs],
      [types |-> {S_feeder_triggered, S_feeder_trigger_bolt12, S_sats_received,
                  S_sats_received_zap, S_daily_reset, S_herd_reset_message},
       items |-> {ItemEmpty}, spots |-> {0}, templates |-> {<<>>}],
      [types |-> {S_cyber_herd_treats, S_feeding_regular, S_feeding_bonus,
                  S_feeding_remainder, S_feeding_fallback},
       items |-> {ItemEmpty, ItemAllValid, ItemProfile}, spots |-> {0}, templates |-> {<<>>}],
      [types |-> {<<"f","o","o">>, <<"C","y","b","e","r","_","H","e","r","d">>, <<>>},
       items |-> {ItemEmpty, ItemAllValid, ItemEventOnly, ItemNameOnly},
       spots |-> {0, 1}, templates |-> TemplatesInputs] }

BuildCallArgs(G) ==
    [event_type : G.types,
     new_amount : {IntVal(<<"2","1">>)}, difference : {IntVal(<<"3","0","0">>)},
     cyber_herd_item : G.items, spots_remaining : G.spots,
     template_overrides : BuildOverridesInputs,
     reply_to_30311_event : {None, S_x}, reply_to_30311_a_tag : {S_a30311}]

BuildChoicesInputs == { <<0, 0, 0>>, <<1, 1, 1>> }

PickPoolInputs == { <<>>, HEADBUTT_INFO, CYBER_HERD_JOIN, VARIATIONS }

BuildNext ==
    \/ /\ pc[1] = "idle"
       /\ \E pool \in PickPoolInputs, choice \in {0, 1, 4} : pick_template(1, pool, choice)
    \/ /\ pc[1] = "idle"
       /\ \E G \in BuildGroups :
             \E a \in BuildCallArgs(G), choices \in BuildChoicesInputs,
                templates \in G.templates :
                build_message(1, a, choices, <<2, 1>>, templates)
    \/ Return(1)

BuildSpec == ComposeInit /\ [][BuildNext]_vars

----------------------------------------------------------------------------
(* The publish endpoint: POST /api/v1/publish and direct calls of            *)
(* try_publish_note, over the dispatcher of publish_note.                    *)

\* the keyword arguments try_publish_note accepts and the one without a
\* default, lines 445-452
try_publish_note_keywords == {"e_tags", "p_tags", "reply_relay", "wallet_id"}
try_publish_note_required == {"wallet_id"}

\* the keyword arguments api_publish_note passes, views_api.py lines 117-123
ApiPublishKeywords == {"e_tags", "p_tags", "reply_relay", "private_key"}

\* the binding of a call's keyword arguments to a signature: the call
\* raises TypeError on an unexpected keyword and on a missing required one
BindsKeywords(given, accepted, required) ==
    given \subseteq accepted /\ required \subseteq given

\* try_publish_note, lines 445-465: publish_note with the same arguments
try_publish_note(t, content, e_tags, p_tags, reply_relay, wallet_id, readRaises) ==
    PublishNote(t, [NoArgs EXCEPT !.content = content, !.e_tags = e_tags,
                                  !.p_tags = p_tags, !.reply_relay = reply_relay,
                                  !.wallet_id = wallet_id], readRaises)

\* the answer of the endpoint: the HTTP status and the body or the detail
ApiAnswer(status, body) == [status |-> status, body |-> body]

\* api_publish_note, views_api.py lines 98-136, up to its answer or to the
\* first suspension point of the dispatcher; extension_enabled is what
\* check_extension_enabled finds, user_key the stored signing key
api_publish_note(t, extension_enabled, payload, readRaises) ==
    /\ pc[t] = "idle"
    /\ LET request == [api_args |-> [extension_enabled |-> extension_enabled,
                                     stored_key |-> user_key, payload |-> payload]]
           answers(answer) ==
               /\ call' = [call EXCEPT ![t] = request]
               /\ loc' = [loc EXCEPT ![t] =
                            [answer |-> answer] @@ [InitLoc EXCEPT !.result = "Raised"]]
               /\ pc' = [pc EXCEPT ![t] = "done"]
               /\ UNCHANGED <<user_key, setting, nostrclient_available, lock, probes>>
       IN  IF ~extension_enabled
           THEN answers(ApiAnswer(403, "extension not enabled"))        \* lines 71-85, 108
           ELSE IF ~Truthy(user_key)
           THEN answers(ApiAnswer(400, "no stored key"))                \* lines 110-116
           ELSE IF ~BindsKeywords(ApiPublishKeywords, try_publish_note_keywords,
                                  try_publish_note_required)
           THEN answers(ApiAnswer(500, "TypeError"))                    \* lines 132-136
           ELSE PublishNote(t, request @@
                               [NoArgs EXCEPT !.content = payload.content,
                                              !.e_tags = payload.e_tags,
                                              !.p_tags = payload.p_tags,
                                              !.reply_relay = payload.reply_relay],
                            readRaises)

\* lines 124-129 once the dispatcher has returned: the answer of a finished
\* request
ApiAnswerOf(t) ==
    IF "answer" \in DOMAIN loc[t] THEN loc[t].answer
    ELSE IF loc[t].result = "True" THEN ApiAnswer(200, "published")
    ELSE ApiAnswer(400, "failed to publish")

PublishPayloadInputs ==
    [content : {S_hi, S_x}, e_tags : {<<>>, <<S_x>>}, p_tags : PTagsInputs,
     reply_relay : {None, S_wssr}]

ApiInit ==
    /\ user_key \in {None, <<>>, Key64}
    /\ setting \in {S_1, S_0}
    /\ nostrclient_available = "True"
    /\ lock = 0
    /\ probes = 1
    /\ pc = [t \in Tasks |-> "idle"]
    /\ call = [t \in Tasks |-> NoArgs]
    /\ loc = [t \in Tasks |-> InitLoc]

ApiNext ==
    \/ /\ pc[1] = "idle"
       /\ \E extension_enabled \in BOOLEAN, payload \in PublishPayloadInputs :
             api_publish_note(1, extension_enabled, payload, FALSE)
    \/ /\ pc[1] = "idle"
       /\ \E payload \in PublishPayloadInputs, wallet_id \in {None, S_w1} :
             try_publish_note(1, payload.content, payload.e_tags, payload.p_tags,
                              payload.reply_relay, wallet_id, FALSE)
    \/ AvailCheck(1)
    \/ Dispatch(1, TRUE)
    \/ \E relay \in {"ok", "publish_raises"} : SignReturns(1, relay)
    \/ Return(1)

ApiSpec == ApiInit /\ [][ApiNext]_vars

----------------------------------------------------------------------------
(* Claims *)

Active(t) == pc[t] # "idle"
Done(t) == pc[t] = "done"

\* the stored values that are disabled once trimmed and lower-cased
ClaimDisabled ==
    { S_0, <<>>, <<" ","O","F","F"," ">>, <<"F","a","l","s","e">>, <<"n","o","\n">> }

NothingInvoked(t) ==
    /\ ~loc[t].availCalled
    /\ ~loc[t].bunkerTried
    /\ loc[t].signCalls = 0
    /\ loc[t].relayCalls = 0

\* C1 as stated: whenever the stored setting holds a disabled value, the call
\* returns True and invokes neither the availability check, nor the signer,
\* nor the relay transport.
C1_Original ==
    \A t \in Tasks :
        (Active(t) /\ loc[t].storedAtRead \in ClaimDisabled)
            => (Done(t) /\ loc[t].result = "True" /\ NothingInvoked(t))

\* C1 amended: whenever the read of the setting returns a disabled value (the
\* read does not raise), the call returns True and invokes neither the
\* availability check, nor the signer, nor the relay transport.
C1_DisabledReturnsTrue ==
    \A t \in Tasks :
        (Active(t) /\ loc[t].storedAtRead \in ClaimDisabled /\ ~loc[t].readRaised)
            => (Done(t) /\ loc[t].result = "True" /\ NothingInvoked(t))

C1_Witness ==
    \E t \in Tasks :
        /\ Done(t)
        /\ loc[t].storedAtRead = <<" ","O","F","F"," ">>
        /\ ~loc[t].readRaised
        /\ loc[t].result = "True"

\* C2: the availability probe runs at most once, the cached flag goes from
\* unset to a boolean with the one probe and never changes afterwards, and
\* every caller returns the cached boolean.
C2_SingleFlight ==
    /\ [](probes <= 1)
    /\ [](nostrclient_available # "None" <=> probes = 1)
    /\ [][nostrclient_available # "None"
            => nostrclient_available' = nostrclient_available]_vars
    /\ [](\A t \in Tasks :
            loc[t].avail # "None" => loc[t].avail = nostrclient_available)

\* a caller that waited for the lock holds it after the probe of another
\* caller, while a third call has already returned the cached flag
C2_Witness ==
    \E t, u \in Tasks :
        /\ t # u
        /\ pc[t] = "avail_recheck"
        /\ nostrclient_available # "None"
        /\ loc[u].avail = nostrclient_available

\* C3 as stated: a call that starts after "0" was stored invokes no signer,
\* and a call that starts after "1" was stored attempts signing when the
\* backend is available.
C3_Original ==
    \A t \in Tasks :
        /\ (Active(t) /\ loc[t].storedAtRead = S_0) => loc[t].signCalls = 0
        /\ (Done(t) /\ loc[t].storedAtRead = S_1 /\ loc[t].avail = "True")
              => loc[t].bunkerTried

\* C3 amended: a call whose read of the setting does not raise and that starts
\* after "0" was stored invokes no signer; a call that starts after "1" was
\* stored attempts signing when the backend is available; whatever calls ran
\* before or run concurrently.
C3_FreshRead ==
    \A t \in Tasks :
        /\ (Active(t) /\ loc[t].storedAtRead = S_0 /\ ~loc[t].readRaised)
              => (~loc[t].bunkerTried /\ loc[t].signCalls = 0)
        /\ (Done(t) /\ loc[t].storedAtRead = S_1 /\ loc[t].avail = "True")
              => loc[t].bunkerTried

\* a call that read "1" has reached the signer while a concurrent call that
\* read "0" has returned True without one
C3_Witness ==
    \E t, u \in Tasks :
        /\ pc[t] = "sign" /\ loc[t].storedAtRead = S_1 /\ ~loc[t].readRaised
        /\ Done(u) /\ loc[u].storedAtRead = S_0 /\ ~loc[u].readRaised
        /\ loc[u].result = "True" /\ loc[u].signCalls = 0

\* C4: when the row is absent or the read raises, is_nostr_publishing_enabled
\* does not raise and goes on to the availability check; its result is the
\* cached flag, and with the flag true publish_note goes on to compose and sign.
C4_FailOpen ==
    \A t \in Tasks :
        (Active(t) /\ (loc[t].readRaised \/ loc[t].storedAtRead = None))
            => /\ loc[t].availCalled
               /\ loc[t].result # "Raised"
               /\ loc[t].enabled # "None" => loc[t].enabled = nostrclient_available
               /\ (loc[t].enabled = "True" /\ pc[t] # "gate") => loc[t].bunkerTried

C4_Witness ==
    \E t, u \in Tasks :
        /\ pc[t] = "sign" /\ loc[t].readRaised /\ loc[t].storedAtRead = S_0
        /\ pc[u] = "sign" /\ ~loc[u].readRaised /\ loc[u].storedAtRead = None

\* C5: with publishing enabled by the setting and the backend unavailable,
\* publish_note returns False.
C5_UnavailableReturnsFalse ==
    \A t \in Tasks :
        (Done(t) /\ ~loc[t].readRaised /\ loc[t].storedAtRead = S_1
                 /\ loc[t].avail = "False")
            => loc[t].result = "False"

\* C6: on the remote path publish_note never raises; a sign_event that raises
\* LookupError, PermissionError or anything else, and a relay publish that
\* raises, give False; publish_message is called only with the event that
\* sign_event returned in this call; the signer is called at most once.
C6_RemotePath ==
    \A t \in Tasks :
        /\ loc[t].result # "Raised"
        /\ (Done(t) /\ loc[t].signOutcome \in SignErrors)
              => (loc[t].result = "False" /\ loc[t].relayCalls = 0)
        /\ (Done(t) /\ loc[t].relayOutcome = "publish_raises") => loc[t].result = "False"
        /\ loc[t].relayCalls > 0
              => /\ loc[t].signOutcome = "signed"
                 /\ loc[t].wire = <<"EVENT", [event |-> loc[t].submitted[1], sig |-> TRUE]>>
        /\ loc[t].signCalls <= 1
        /\ loc[t].relayCalls <= 1

C6_Witness ==
    \E t, u \in Tasks :
        /\ Done(t) /\ loc[t].signOutcome = "PermissionError" /\ loc[t].result = "False"
        /\ Done(u) /\ loc[u].relayOutcome = "publish_raises" /\ loc[u].result = "False"
        /\ loc[u].relayCalls = 1

\* the key material that has 64 hex digits once stripped, with those digits
ClaimSanitized(key) ==
    CASE key = Key64 -> Rep("a", 64)
      [] key = KeyPrefixed -> Rep("b", 64)
      [] key = KeySpaced -> Rep("c", 64)
      [] key = KeyLong -> Rep("d", 64)
      [] key = KeyDashed -> Rep("1", 63) \o <<"2">>
      [] OTHER -> None

\* C7: on the local-key path, with publishing enabled, missing or unsanitizable
\* key material makes publish_note return False with no event constructed or
\* signed and nothing handed to the relay; valid material is signed with
\* exactly its first 64 hex digits.
C7_LocalKey ==
    \A t \in Tasks :
        /\ (Done(t) /\ loc[t].enabled = "True" /\ ClaimSanitized(call[t].private_key) = None)
              => /\ loc[t].result = "False"
                 /\ loc[t].submitted = <<>>
                 /\ loc[t].signCalls = 0
                 /\ loc[t].relayCalls = 0
        /\ (Done(t) /\ loc[t].enabled = "True" /\ ClaimSanitized(call[t].private_key) # None)
              => /\ loc[t].signCalls = 1
                 /\ loc[t].signKey = ClaimSanitized(call[t].private_key)
        /\ loc[t].signCalls > 0 => Len(loc[t].signKey) = 64

C7_Witness ==
    /\ Done(1) /\ loc[1].enabled = "True"
    /\ call[1].private_key = KeyShort
    /\ loc[1].result = "False" /\ loc[1].signCalls = 0

\* the final tag list and the kind of the event handed to the signer
Submitted(t) == loc[t].submitted # <<>>
FinalTags(t) == loc[t].submitted[1].tags

\* the explicit tags as tuples of strings
ClaimExplicit(c) ==
    { [j \in 1..Len(c.tags[i]) |-> IF c.tags[i][j] = None THEN <<>> ELSE c.tags[i][j]] :
        i \in 1..Len(c.tags) }

\* the container references among the inputs: explicit 'a' tags and the
\* trimmed reply_to_30311_a_tag
ClaimContainerRefs(c) ==
    { tg[2] : tg \in {x \in ClaimExplicit(c) : Len(x) >= 2 /\ x[1] = S_a} }
    \cup (IF c.reply_to_30311_a_tag \in {None, <<>>, <<" ">>} THEN {}
          ELSE IF c.reply_to_30311_a_tag = S_a30023 THEN {S_a30023} ELSE {S_a30311})

\* C8 as stated: the kind is 1311 whenever the composed tags contain a
\* container-reference ('a') tag, and 1 otherwise.
C8_Original ==
    \A t \in Tasks :
        Submitted(t) =>
            loc[t].submitted[1].kind =
                IF \E i \in 1..Len(FinalTags(t)) : FinalTags(t)[i][1] = S_a
                THEN 1311 ELSE 1

\* C8 amended: the kind is 1311 whenever the composed tags contain an 'a' tag
\* whose reference starts with "30311:" (from the explicit tags or from
\* reply_to_30311_a_tag), and 1 otherwise.
C8_Kind ==
    \A t \in Tasks :
        Submitted(t) =>
            loc[t].submitted[1].kind =
                IF \E r \in ClaimContainerRefs(call[t]) :
                      Len(r) >= 6 /\ SubSeq(r, 1, 6) = <<"3","0","3","1","1",":">>
                THEN 1311 ELSE 1

\* a reply whose only container reference is of another kind is a text note,
\* submitted next to no other state than its own
C8_Witness ==
    /\ Submitted(1)
    /\ call[1].reply_to_30311_a_tag = S_a30023
    /\ call[1].tags = <<>>
    /\ loc[1].submitted[1].kind = 1

\* the reply event ids: e_tags and reply_to_30311_event, trimmed, blanks dropped
ClaimCandidates(c) ==
    LET raw == c.e_tags \o <<c.reply_to_30311_event>>
    IN [i \in 1..Len(raw) |-> IF raw[i] = None THEN <<>> ELSE Strip(raw[i])]

\* ... in first-seen order without duplicates
ClaimIds(c) ==
    LET cand == ClaimCandidates(c)
        first == {i \in 1..Len(cand) :
                    cand[i] # <<>> /\ \A j \in 1..(i - 1) : cand[j] # cand[i]}
        Nth[k \in 1..Cardinality(first)] ==
            CHOOSE i \in first : Cardinality({j \in first : j < i}) = k - 1
    IN [k \in 1..Cardinality(first) |-> cand[Nth[k]]]

\* the relay hint as section 4.5 normalizes it
ClaimHint(relay) ==
    CASE relay = S_wssr -> <<"w","s","s",":","/","/","r">>
      [] relay = S_httpsr -> <<"w","s","s",":","/","/","r">>
      [] relay = S_httpr -> <<"w","s",":","/","/","r">>
      [] OTHER -> <<>>

\* the 'e' tags of the final list that the explicit tags did not bring
ComposedETags(t) ==
    LET FromIds(tg) == tg[1] = S_e /\ tg \notin ClaimExplicit(call[t])
    IN SelectSeq(FinalTags(t), FromIds)

Without(tagseq, S) ==
    LET Keep(tg) == tg \notin S IN SelectSeq(tagseq, Keep)

\* C9: when the reply event ids are exactly one id, the tags composed from them
\* are one 'e' tag for that id marked root and none marked reply, also when
\* the id comes both in e_tags and as reply_to_30311_event.
C9_SingleRoot ==
    \A t \in Tasks :
        (Submitted(t) /\ Len(ClaimIds(call[t])) = 1) =>
            LET root == <<S_e, ClaimIds(call[t])[1], ClaimHint(call[t].reply_relay), S_root>>
            IN /\ ComposedETags(t) = Without(<<root>>, ClaimExplicit(call[t]))
               /\ Cardinality({i \in 1..Len(FinalTags(t)) : FinalTags(t)[i] = root}) = 1
               /\ \A i \in 1..Len(ComposedETags(t)) : ComposedETags(t)[i][4] # S_reply

C9_Witness ==
    /\ Submitted(1)
    /\ call[1].e_tags = <<S_sx>> /\ call[1].reply_to_30311_event = S_x
    /\ call[1].tags = <<>>
    /\ ComposedETags(1) = << <<S_e, S_x, <<>>, S_root>> >>

\* C10: with two or more distinct reply event ids, the composed 'e' tags are
\* the first id marked root and the second marked reply, both with the
\* normalized relay hint (empty when absent or not normalizable), then every
\* further id marked mention with an empty relay field.
C10_Markers ==
    \A t \in Tasks :
        (Submitted(t) /\ Len(ClaimIds(call[t])) >= 2) =>
            LET ids == ClaimIds(call[t])
                hint == ClaimHint(call[t].reply_relay)
                expected == [k \in 1..Len(ids) |->
                               IF k = 1 THEN <<S_e, ids[k], hint, S_root>>
                               ELSE IF k = 2 THEN <<S_e, ids[k], hint, S_reply>>
                               ELSE <<S_e, ids[k], <<>>, S_mention>>]
            IN ComposedETags(t) = Without(expected, ClaimExplicit(call[t]))

C10_Witness ==
    /\ Submitted(1)
    /\ call[1].e_tags = <<S_sx, S_y, S_x>> /\ call[1].reply_to_30311_event = S_z
    /\ call[1].reply_relay = S_httpr
    /\ call[1].tags = <<>>
    /\ ComposedETags(1) = << <<S_e, S_x, <<"w","s",":","/","/","r">>, S_root>>,
                             <<S_e, S_y, <<"w","s",":","/","/","r">>, S_reply>>,
                             <<S_e, S_z, <<>>, S_mention>> >>

----------------------------------------------------------------------------
(* Claims on the composed tag list *)

\* the elements of a sequence in the order of their first occurrence
FirstOccurrences(q) ==
    LET first == {i \in 1..Len(q) : \A j \in 1..(i - 1) : q[j] # q[i]}
        Nth[k \in 1..Cardinality(first)] ==
            CHOOSE i \in first : Cardinality({j \in first : j < i}) = k - 1
    IN [k \in 1..Cardinality(first) |-> q[Nth[k]]]

\* the explicit tags as tuples of strings, in call order, empty tuples left out
ClaimExplicitSeq(c) ==
    LET norm == [i \in 1..Len(c.tags) |->
                   [j \in 1..Len(c.tags[i]) |->
                      IF c.tags[i][j] = None THEN <<>> ELSE c.tags[i][j]]]
        NonEmpty(tg) == tg # <<>>
    IN SelectSeq(norm, NonEmpty)

\* the threading tags section 4.5 prescribes for the reply event ids
ClaimETagSeq(c) ==
    LET ids == ClaimIds(c)
        hint == ClaimHint(c.reply_relay)
    IN [k \in 1..Len(ids) |->
          IF k = 1 THEN <<S_e, ids[k], hint, S_root>>
          ELSE IF k = 2 THEN <<S_e, ids[k], hint, S_reply>>
          ELSE <<S_e, ids[k], <<>>, S_mention>>]

\* the p_tags entries that are 64 hex characters once trimmed, lower-cased
ClaimPubkeyOf(p) ==
    CASE p = ValidPubkey -> Rep("a", 64)
      [] p = UpperPubkey -> Rep("a", 64)
      [] p = OtherPubkey -> Rep("c", 64)
      [] OTHER -> None

ClaimPTagSeq(c) ==
    LET Valid(p) == ClaimPubkeyOf(p) # None
        kept == SelectSeq(c.p_tags, Valid)
    IN [i \in 1..Len(kept) |-> <<S_p, ClaimPubkeyOf(kept[i])>>]

\* the container reference supplied, trimmed; None when absent or blank
ClaimContainerRef(c) ==
    CASE c.reply_to_30311_a_tag \in {S_a30311, <<" ">> \o S_a30311 \o <<" ">>}
            -> <<"3","0","3","1","1",":","p",":","d">>
      [] c.reply_to_30311_a_tag = S_a30023 -> <<"3","0","0","2","3",":","p",":","d">>
      [] OTHER -> None

ClaimATagSeq(c) ==
    IF ClaimContainerRef(c) = None THEN <<>> ELSE << <<S_a, ClaimContainerRef(c)>> >>

\* every insertion publish_note makes, in order
ClaimInserted(c) ==
    ClaimExplicitSeq(c) \o ClaimETagSeq(c) \o ClaimPTagSeq(c) \o ClaimATagSeq(c)

Marked(tagseq, marker) ==
    {i \in 1..Len(tagseq) : Len(tagseq[i]) >= 4 /\ tagseq[i][4] = marker}

\* C11: for every input, the final tag list handed to the signer contains at
\* most one tag marked root and at most one tag marked reply.
C11_OneRootOneReply ==
    \A t \in Tasks :
        Submitted(t) =>
            /\ Cardinality(Marked(FinalTags(t), S_root)) <= 1
            /\ Cardinality(Marked(FinalTags(t), S_reply)) <= 1

\* C12: the final tag list contains no two equal tuples; a tuple inserted
\* again is ignored and each tuple stays at the position of its first
\* insertion, the insertions being the explicit tags, then the event tags,
\* then the pubkey tags, then the container tag.
C12_Dedup ==
    \A t \in Tasks :
        Submitted(t) =>
            /\ \A i, j \in 1..Len(FinalTags(t)) :
                  FinalTags(t)[i] = FinalTags(t)[j] => i = j
            /\ FinalTags(t) = FirstOccurrences(ClaimInserted(call[t]))

\* the explicit root tag, the pubkey given twice and the explicit tag given
\* twice are each inserted again and ignored
C12_Witness ==
    /\ Submitted(1)
    /\ call[1].tags = << <<S_e, S_x, <<>>, S_root>> >>
    /\ call[1].e_tags = <<S_x>>
    /\ call[1].p_tags = <<ValidPubkey, ShortPubkey, UpperPubkey>>
    /\ FinalTags(1) = << <<S_e, S_x, <<>>, S_root>>, <<S_p, ValidPubkey>> >>

\* the 'p' tags of the final list that the explicit tags did not bring
ComposedPTags(t) ==
    LET FromIds(tg) == tg[1] = S_p /\ tg \notin ClaimExplicit(call[t])
    IN SelectSeq(FinalTags(t), FromIds)

\* C13: every 'p' tag derived from p_tags carries a pubkey of 64 hex
\* characters; an entry that fails validation yields no tag and does not abort
\* the composition: the other tags are emitted and the signer is called.
C13_ValidPubkeys ==
    \A t \in Tasks :
        /\ Submitted(t) =>
              /\ \A i \in 1..Len(ComposedPTags(t)) :
                    LET pk == ComposedPTags(t)[i][2] IN
                    Len(pk) = 64 /\ \A k \in 1..Len(pk) : pk[k] \in HexDigits
              /\ ComposedPTags(t) =
                    Without(FirstOccurrences(ClaimPTagSeq(call[t])), ClaimExplicit(call[t]))
              /\ \A tg \in SeqToSet(ClaimExplicitSeq(call[t]) \o ClaimETagSeq(call[t])
                                      \o ClaimATagSeq(call[t])) :
                    tg \in SeqToSet(FinalTags(t))
        /\ pc[t] \in {"sign", "done"} =>
              (Submitted(t) /\ loc[t].signCalls = 1 /\ loc[t].result # "Raised")

C13_Witness ==
    /\ Done(1) /\ Submitted(1)
    /\ call[1].p_tags = <<NonHexPubkey, OtherPubkey, LongPubkey, <<>>, ValidPubkey>>
    /\ call[1].e_tags = <<S_x>>
    /\ FinalTags(1) = << <<S_e, S_x, <<>>, S_root>>, <<S_p, OtherPubkey>>,
                         <<S_p, ValidPubkey>> >>
    /\ loc[1].signCalls = 1

Supplied(c) == c.reply_to_30311_a_tag \notin {None, <<>>, <<" ">>}

\* C14 as stated: whenever a non-blank reply_to_30311_a_tag is supplied, the
\* last element of the final tag list is ('a', that string), the string
\* unchanged.
C14_Original ==
    \A t \in Tasks :
        (Submitted(t) /\ Supplied(call[t])) =>
            FinalTags(t)[Len(FinalTags(t))] = <<S_a, call[t].reply_to_30311_a_tag>>

\* C14 amended: whenever a non-blank reply_to_30311_a_tag is supplied, the
\* final tag list contains ('a', that string trimmed) exactly once; it is the
\* last element unless the explicit tags already contain that tuple, and then
\* it stays where the explicit tags put it.
C14_ContainerTag ==
    \A t \in Tasks :
        (Submitted(t) /\ Supplied(call[t])) =>
            LET tg == <<S_a, ClaimContainerRef(call[t])>>
                explicit == FirstOccurrences(ClaimExplicitSeq(call[t]))
            IN /\ Cardinality({i \in 1..Len(FinalTags(t)) : FinalTags(t)[i] = tg}) = 1
               /\ tg \notin SeqToSet(explicit) => FinalTags(t)[Len(FinalTags(t))] = tg
               /\ \A i \in 1..Len(explicit) : explicit[i] = tg => FinalTags(t)[i] = tg

\* the reference is trimmed and follows the event and pubkey tags
C14_Witness ==
    /\ Submitted(1)
    /\ call[1].reply_to_30311_a_tag = <<" ">> \o S_a30311 \o <<" ">>
    /\ call[1].tags = <<>>
    /\ call[1].e_tags = <<S_x>>
    /\ call[1].p_tags = <<ValidPubkey, ShortPubkey, UpperPubkey>>
    /\ FinalTags(1) = << <<S_e, S_x, <<>>, S_root>>, <<S_p, ValidPubkey>>,
                         <<S_a, S_a30311>> >>

\* the one-to-one maps of 1..n onto itself
Perms(n) == {f \in [1..n -> 1..n] : \A i, j \in 1..n : f[i] = f[j] => i = j}

\* the call with its explicit tags reordered by f
Shuffled(c, f) == [c EXCEPT !.tags = [i \in 1..Len(c.tags) |-> c.tags[f[i]]]]

\* C15 as stated: for any permutation X' of the explicit tag list X, all other
\* inputs equal, composition yields the same result.
C15_Original ==
    \A t \in Tasks :
        Submitted(t) =>
            \A f \in Perms(Len(call[t].tags)) :
                ComposeTags(Shuffled(call[t], f)) = FinalTags(t)

\* C15 amended: for any permutation X' of the explicit tag list X, all other
\* inputs equal, composition yields the same tuples, and the same list
\* whenever X' keeps the order in which the distinct tuples of X first occur.
C15_Shuffle ==
    \A t \in Tasks :
        Submitted(t) =>
            \A f \in Perms(Len(call[t].tags)) :
                LET other == ComposeTags(Shuffled(call[t], f)) IN
                /\ SeqToSet(other) = SeqToSet(FinalTags(t))
                /\ Len(other) = Len(FinalTags(t))
                /\ FirstOccurrences(ClaimExplicitSeq(Shuffled(call[t], f)))
                      = FirstOccurrences(ClaimExplicitSeq(call[t]))
                   => other = FinalTags(t)

\* an explicit list with a repeated tuple, composed with one reply id
C15_Witness ==
    /\ Submitted(1)
    /\ call[1].tags = << <<S_t, S_y>>, <<S_t, S_x>>, <<S_t, S_y>> >>
    /\ call[1].e_tags = <<S_x>>
    /\ FinalTags(1) = << <<S_t, S_y>>, <<S_t, S_x>>, <<S_e, S_x, <<>>, S_root>> >>

----------------------------------------------------------------------------
(* Claims on the reference codec *)

\* no string of 64 hex characters once trimmed
ClaimInvalidRef(id) ==
    \/ id \in {None, NotAString}
    \/ LET s == Strip(id) IN
       Len(s) # 64 \/ \E i \in 1..Len(s) : s[i] \notin HexDigits

\* C20: for every input whose trimmed length is not 64 or that contains a
\* non-hex character, and for empty or non-string input, both
\* format_nostr_event_reference and format_nostr_pubkey return None and do
\* not raise.
C20_InvalidIsNone ==
    \A t \in Tasks :
        (Done(t) /\ ClaimInvalidRef(call[t].id))
            => (loc[t].ref = None /\ loc[t].result = "Returned")

----------------------------------------------------------------------------
(* Claims on templates *)

\* the call of t is a finished render_and_publish_template that found its template
RenderDone(t) ==
    /\ pc[t] = "done"
    /\ "render" \in DOMAIN loc[t]
    /\ loc[t].render.outcome # "not_found"

\* the call of t is a finished build_message
BuildDone(t) == pc[t] = "done" /\ "bundle" \in DOMAIN loc[t]

\* the replacement fields of a template: the text between a single opening
\* brace and the next closing brace
ClaimFields(template) ==
    { SubSeq(template, i + 1, j - 1) : <<i, j>> \in
        { p \in (1..Len(template)) \X (1..Len(template)) :
            /\ p[1] < p[2]
            /\ template[p[1]] = "{" /\ template[p[2]] = "}"
            /\ At(template, p[1] - 1) # "{" /\ At(template, p[1] + 1) # "{"
            /\ \A k \in (p[1] + 1)..(p[2] - 1) : template[k] \notin {"{", "}"} } }

\* the template has a placeholder with attribute access or indexing
ClaimTraverses(template) ==
    \E field \in ClaimFields(template) : \E k \in 1..Len(field) : field[k] \in {".", "["}

\* the template text build_message drew for the call c
ClaimBuildTemplate(c) ==
    _safe_template_content(
        _pick_template(
            IF c.build_args.event_type = S_sats_received
            THEN _pool(c.build_args.template_overrides, S_sats_received, SATS_RECEIVED)
            ELSE _pool(c.build_args.template_overrides, S_headbutt_info, HEADBUTT_INFO),
            c.choices[1]))

\* C16: on every path that renders a template, a placeholder with attribute
\* access or indexing is rejected as a render error and never evaluated:
\* render_and_publish_template records a render error, and build_message
\* raises or keeps the template text as it is.
C16_NoTraversal ==
    \A t \in Tasks :
        /\ RenderDone(t) /\ ClaimTraverses(loc[t].render.template_content)
             => loc[t].render.rendered.raised
        /\ BuildDone(t) /\ ClaimTraverses(ClaimBuildTemplate(call[t]))
             => \/ loc[t].bundle.raised
                \/ /\ loc[t].bundle.websocket_content = ClaimBuildTemplate(call[t])
                   /\ loc[t].bundle.nostr_content =
                        _strip_promotional_link(ClaimBuildTemplate(call[t]),
                                                is_30311_reply(call[t].build_args))

\* the positions of the braces of a template, in order
ClaimBraces(template) ==
    LET at == {i \in 1..Len(template) : template[i] \in {"{", "}"}}
        Nth[n \in 0..Cardinality(at)] ==
            IF n = 0 THEN 0 ELSE Min({i \in at : i > Nth[n - 1]})
    IN  [n \in 1..Cardinality(at) |-> Nth[n]]

\* every brace of the template belongs to a bare placeholder {identifier}
ClaimBare(template) ==
    LET braces == ClaimBraces(template) IN
    /\ Len(braces) % 2 = 0
    /\ \A n \in 1..Len(braces) :
          IF n % 2 = 1
          THEN template[braces[n]] = "{"
          ELSE /\ template[braces[n]] = "}"
               /\ isidentifier(SubSeq(template, braces[n - 1] + 1, braces[n] - 1))

\* a bare template with each placeholder that values names replaced by the
\* value and every other placeholder kept
RECURSIVE ClaimExpand(_, _)
ClaimExpand(template, values) ==
    LET open == FirstIndex(template, 1, {"{"})
        close == FirstIndex(template, 1, {"}"})
        name == SubSeq(template, open + 1, close - 1)
    IN  IF open = 0 THEN template
        ELSE SubSeq(template, 1, open - 1)
             \o (IF HasKey(values, name) THEN Get(values, name).text
                 ELSE <<"{">> \o name \o <<"}">>)
             \o ClaimExpand(SubSeq(template, close + 1, Len(template)), values)

\* C17: rendering a template of bare placeholders with the safe renderer does
\* not raise, replaces every placeholder whose name is in the context by its
\* value and leaves every other placeholder as '{name}'; that text is what
\* the call goes on with (a membership notice may be appended to it) and,
\* when the values name no membership event, what is returned in websocket
\* mode and what is handed to publish_note.
C17_SafeRender ==
    \A t \in Tasks :
        RenderDone(t) /\ ClaimBare(loc[t].render.template_content)
        => /\ ~loc[t].render.rendered.raised
           /\ loc[t].render.rendered.text =
                ClaimExpand(loc[t].render.template_content, loc[t].render.format_values)
           /\ StartsWith(loc[t].render.rendered_content, loc[t].render.rendered.text)
           /\ loc[t].render.outcome = "websocket" /\ ~loc[t].render.augmented
                => loc[t].render.returned_content = loc[t].render.rendered.text
           /\ loc[t].render.outcome = "publish"
                => /\ call[t].content = loc[t].render.rendered_content
                   /\ ~loc[t].render.augmented
                          => call[t].content = loc[t].render.rendered.text

\* a template with a known and an unknown placeholder has been rendered
C17_Witness ==
    \E t \in Tasks :
        /\ RenderDone(t)
        /\ loc[t].render.template_content = <<"H","i"," ","{","w","h","o","}"," ","a","n","d"," ","{","n","a","m","e","}">>
        /\ loc[t].render.format_values # <<>>
        /\ Get(loc[t].render.format_values, S_name).text = S_Alice
        /\ ~HasKey(loc[t].render.format_values, <<"w","h","o">>)
        /\ loc[t].render.rendered.text = <<"H","i"," ","{","w","h","o","}"," ","a","n","d"," ","A","l","i","c","e">>

\* C18: a render error never leaves render_and_publish_template or
\* build_message: the call does not raise, and after a render error
\* render_and_publish_template goes on with the raw template text, which it
\* returns in websocket mode and hands to publish_note otherwise.
C18_RenderErrorsRecovered ==
    \A t \in Tasks :
        /\ RenderDone(t) /\ loc[t].render.rendered.raised
             => /\ loc[t].result # "Raised"
                /\ IF call[t].render_args.return_websocket_message
                   THEN loc[t].render.returned_content = loc[t].render.template_content
                   ELSE /\ "content" \in DOMAIN call[t]
                        /\ call[t].content = loc[t].render.template_content
        /\ BuildDone(t) => ~loc[t].bundle.raised

\* the stored text of a finished render call, trimmed
ClaimStored(t) == Strip(call[t].render_args.template_obj.content)

\* the call of t unwrapped stored text that starts with '{', ends with '}'
\* and contains ':'
ClaimWrapped(t) ==
    /\ RenderDone(t)
    /\ call[t].render_args.template_obj.content # None
    /\ ClaimStored(t) # <<>>
    /\ Head(ClaimStored(t)) = "{"
    /\ ClaimStored(t)[Len(ClaimStored(t))] = "}"
    /\ \E i \in 1..Len(ClaimStored(t)) : ClaimStored(t)[i] = ":"

\* text stands in s as the value of a content field: after the word content,
\* separated from it by quotes, spaces and one colon only
ClaimContentField(s, text) ==
    \E i \in 1..Len(s), j \in 1..Len(s) :
        /\ StartsWithAt(s, i, S_content)
        /\ j >= i + Len(S_content) + 1
        /\ StartsWithAt(s, j, text)
        /\ \A k \in (i + Len(S_content))..(j - 1) : s[k] \in Quotes \cup Whitespace \cup {":"}
        /\ Cardinality({k \in (i + Len(S_content))..(j - 1) : s[k] = ":"}) = 1

\* the content of the first stage that succeeds, the empty string when none does
ClaimFirstSuccess(stages) ==
    IF \A k \in 1..Len(stages) : ~stages[k].ok THEN <<>>
    ELSE stages[Min({k \in 1..Len(stages) : stages[k].ok})].content

\* C19: for stored text that starts with '{', ends with '}' and contains ':',
\* the unwrapped content is that of the first stage that succeeds among
\* strict JSON, literal parse, quote-repaired JSON and regex extraction; it
\* is a content field of the text or the empty string, never the text; the
\* text is neither returned nor handed to publish_note.
C19_Unwrapping ==
    \A t \in Tasks :
        ClaimWrapped(t)
        => /\ loc[t].render.template_content =
                ClaimFirstSuccess(<<StrictJson(ClaimStored(t)), LiteralParse(ClaimStored(t)),
                                    QuoteRepairedJson(ClaimStored(t)),
                                    RegexExtraction(ClaimStored(t))>>)
           /\ \/ loc[t].render.template_content = <<>>
              \/ ClaimContentField(ClaimStored(t), loc[t].render.template_content)
           /\ loc[t].render.template_content # ClaimStored(t)
           /\ loc[t].render.returned_content # ClaimStored(t)
           /\ "content" \in DOMAIN call[t] => call[t].content # ClaimStored(t)

\* the wrapper without a content field has been unwrapped to the empty string
C19_Witness ==
    \E t \in Tasks :
        /\ ClaimWrapped(t)
        /\ ClaimStored(t) = <<"{","'","f","o","o","'",":"," ","'","b","a","r","'",","," ","'","b","a","z","'",":"," ","1","}">>
        /\ loc[t].render.template_content = <<>>
        /\ loc[t].render.outcome = "publish"
        /\ call[t].content = <<>>

----------------------------------------------------------------------------
(* Claims on message building *)

PickDone(t) == pc[t] = "done" /\ "pick_pool" \in DOMAIN call[t]

\* C21: template selection never raises: for a pool that is not empty
\* _pick_template returns one of the pool's values, and for an empty pool it
\* returns an entry instead of failing.
C21_PickNeverRaises ==
    \A t \in Tasks :
        PickDone(t) =>
            /\ loc[t].result = "Returned"
            /\ call[t].pick_pool # <<>> =>
                   \E k \in 1..Len(call[t].pick_pool) :
                       loc[t].picked = call[t].pick_pool[k][2]

\* the category whose pool the claims name for an event type
ClaimCategory(e) ==
    IF e \in {S_cyber_herd, S_new_member} THEN S_cyber_herd_join
    ELSE IF e \in {S_feeder_triggered, S_feeder_trigger_bolt12} THEN S_feeder_trigger
    ELSE IF e \in {S_sats_received, S_sats_received_zap} THEN S_sats_received
    ELSE IF e \in {S_daily_reset, S_herd_reset_message} THEN S_daily_reset
    ELSE e

\* the event types that draw their template from a category pool of defaults.py
ClaimPooled ==
    { S_cyber_herd, S_new_member, S_feeder_triggered, S_feeder_trigger_bolt12,
      S_sats_received, S_sats_received_zap, S_headbutt_info, S_headbutt_success,
      S_headbutt_failure, S_cyber_herd_treats, S_member_increase, S_daily_reset,
      S_herd_reset_message, S_feeding_regular, S_feeding_bonus, S_feeding_remainder,
      S_feeding_fallback }

\* the pools, not empty, that the overrides hold under a variant of the name
ClaimOverridePools(overrides, name) ==
    { overrides[i][2] : i \in
        { i \in 1..Len(overrides) :
            /\ overrides[i][2] # <<>>
            /\ \/ overrides[i][1] \in {name, Lower(name), Lower(name) \o S__dict}
               \/ /\ Len(Lower(name)) > Len(S__dict)
                  /\ SubSeq(Lower(name), Len(name) - Len(S__dict) + 1, Len(name)) = S__dict
                  /\ overrides[i][1] = SubSeq(Lower(name), 1, Len(name) - Len(S__dict)) } }

\* the literal text of a template: what stands between its replacement fields
ClaimLiterals(template) ==
    { SubSeq(template, p[1], p[2]) : p \in
        { p \in (1..Len(template)) \X (1..Len(template)) :
            /\ p[1] <= p[2]
            /\ \A k \in p[1]..p[2] : template[k] \notin {"{", "}"}
            /\ p[1] = 1 \/ template[p[1] - 1] = "}"
            /\ p[2] = Len(template) \/ template[p[2] + 1] = "{" } }

\* content has every literal text of the template
ClaimRenders(content, template) ==
    \A text \in ClaimLiterals(template) : Contains(content, text)

\* C22: for every event type that draws its template from a category pool,
\* when the overrides hold a pool that is not empty under the category name,
\* its lower-cased form, that form plus "_dict" or that form without "_dict",
\* the message is rendered from a template of such an override pool.
C22_OverridePrecedence ==
    \A t \in Tasks :
        LET a == call[t].build_args
            pools == ClaimOverridePools(a.template_overrides, ClaimCategory(a.event_type))
        IN  /\ BuildDone(t) /\ ~loc[t].bundle.raised
            /\ a.event_type \in ClaimPooled
            /\ pools # {}
            => \E pool \in pools : \E k \in 1..Len(pool) :
                   ClaimRenders(loc[t].bundle.websocket_content, pool[k][2].content)

\* the display content build_message gives for the same call outside a
\* reply to a live container
ClaimPlainDisplay(t) ==
    BuildBundle([call[t].build_args EXCEPT !.reply_to_30311_event = None],
                call[t].choices, call[t].sample, call[t].templates).websocket_content

\* C23: for every supported event type, when both reply_to_30311_event and
\* reply_to_30311_a_tag are present the protocol content does not contain
\* the promotional trailer while the display content retains it (it is the
\* display content of the call without the two arguments); when either is
\* absent, the protocol content keeps the trailer the display content has.
C23_TrailerStripped ==
    \A t \in Tasks :
        LET a == call[t].build_args
            b == loc[t].bundle
        IN  (BuildDone(t) /\ ~b.raised /\ a.event_type \in SupportedEventTypes)
            => IF is_30311_reply(a)
               THEN /\ ~Contains(b.nostr_content, S_promo)
                    /\ b.websocket_content = ClaimPlainDisplay(t)
               ELSE Contains(b.websocket_content, S_promo)
                        => Contains(b.nostr_content, S_promo)

\* the references build_message can encode for one role of an item: from
\* the public key, the profile token and the event id under the given keys
ClaimRefs(item, pubkey_key, nprofile_key) ==
    { format_nostr_pubkey(AsText(GetOr(item, pubkey_key, NoneValue))),
      AsText(NormalizedProfile(item, nprofile_key)) } \ {None, NotAString, <<>>}

ClaimEventRefs(item) ==
    { format_nostr_event_reference(AsText(GetOr(item, S_event_id, NoneValue))) } \ {None}

ClaimNames(item, keys) ==
    { AsText(Get(item, k)) : k \in {k \in keys : HasKey(item, k)} } \ {None, NotAString}

\* the contents obtained by putting a display name where a reference stands
ClaimSwap(contents, refs, names) ==
    contents \cup { Replace(c, r, n) : c \in contents, r \in refs, n \in names }

\* the protocol content with display names in place of the references of
\* the member, the attacker and the victim
ClaimUnreferenced(content, item) ==
    ClaimSwap(
        ClaimSwap(
            ClaimSwap({content}, ClaimRefs(item, S_pubkey, S_nprofile) \cup ClaimEventRefs(item),
                      ClaimNames(item, {S_display_name})),
            ClaimRefs(item, S_attacker_pubkey, S_attacker_nprofile) \cup ClaimEventRefs(item),
            ClaimNames(item, {S_attacker_name})),
        ClaimRefs(item, S_victim_pubkey, S_victim_nprofile),
        ClaimNames(item, {S_victim_name, S_victim_display_name}))

\* a finished call of a supported event type whose template has no
\* {goat_name} placeholder (no goat was drawn)
ClaimNoGoat(t) ==
    /\ BuildDone(t) /\ ~loc[t].bundle.raised
    /\ call[t].build_args.event_type \in SupportedEventTypes
    /\ loc[t].bundle.goat_data = None

\* C24 as stated: for every event type and every template without the
\* {goat_name} placeholder, the protocol content and the display content
\* are identical except that the protocol content carries the encoded
\* reference where the display content carries the display name.
C24_Original ==
    \A t \in Tasks :
        ClaimNoGoat(t)
            => loc[t].bundle.websocket_content
                   \in ClaimUnreferenced(loc[t].bundle.nostr_content,
                                         call[t].build_args.cyber_herd_item)

\* C24 amended: for every event type and every template without the
\* {goat_name} placeholder, the protocol content with display names in place
\* of its references is the display content, or, in a reply to a live
\* container, the display content without the promotional trailer.
C24_SameModuloReference ==
    \A t \in Tasks :
        ClaimNoGoat(t)
            => \E shown \in {loc[t].bundle.websocket_content} \cup
                            (IF is_30311_reply(call[t].build_args)
                             THEN {Replace(loc[t].bundle.websocket_content, S_promo, <<>>)}
                             ELSE {}) :
                   shown \in ClaimUnreferenced(loc[t].bundle.nostr_content,
                                               call[t].build_args.cyber_herd_item)

\* a join in a reply to a live container: the protocol content carries the
\* reference and lacks the trailer the display content keeps
C24_Witness ==
    \E t \in Tasks :
        /\ ClaimNoGoat(t)
        /\ call[t].build_args.event_type = S_cyber_herd
        /\ is_30311_reply(call[t].build_args)
        /\ loc[t].bundle.nostr_content # loc[t].bundle.websocket_content
        /\ Contains(loc[t].bundle.nostr_content, S_nostr)
        /\ Contains(loc[t].bundle.websocket_content, S_promo)
        /\ ~Contains(loc[t].bundle.nostr_content, S_promo)

\* the first available of: encoded pubkey reference, supplied profile
\* token, encoded event reference, raw display name
ClaimFirstAvailable(item) ==
    LET chain == << format_nostr_pubkey(AsText(GetOr(item, S_pubkey, NoneValue))),
                    AsText(NormalizedProfile(item, S_nprofile)),
                    format_nostr_event_reference(AsText(GetOr(item, S_event_id, NoneValue))),
                    AsText(Get(item, S_display_name)) >>
        available == { i \in 1..4 : chain[i] \notin {None, NotAString, <<>>} }
    IN  chain[CHOOSE i \in available : \A j \in available : i <= j]

\* C25: for membership join and membership increase events, the name in the
\* protocol content is the first available of encoded pubkey reference,
\* supplied profile token, encoded event reference and raw display name, an
\* invalid identifier counting as unavailable; the display content uses the
\* plain display name and none of the references.
C25_ReferenceOrder ==
    \A t \in Tasks :
        LET a == call[t].build_args
            item == a.cyber_herd_item
        IN  /\ BuildDone(t) /\ ~loc[t].bundle.raised
            /\ a.event_type \in {S_cyber_herd, S_new_member, S_member_increase}
            /\ HasKey(item, S_display_name)
            => /\ Contains(loc[t].bundle.nostr_content, ClaimFirstAvailable(item))
               /\ Contains(loc[t].bundle.websocket_content, AsText(Get(item, S_display_name)))
               /\ \A ref \in ClaimRefs(item, S_pubkey, S_nprofile) \cup ClaimEventRefs(item) :
                      ~Contains(loc[t].bundle.websocket_content, ref)

ClaimMembership(t) ==
    /\ BuildDone(t) /\ ~loc[t].bundle.raised
    /\ call[t].build_args.event_type \in {S_cyber_herd, S_new_member, S_member_increase}

ClaimSingular ==
    <<"⚡"," ","1"," ","m","o","r","e"," ","s","p","o","t"," ","a","v","a","i","l","a","b","l","e","."," ","⚡">>

ClaimPlural(n) ==
    <<"⚡"," ">> \o IntStr(n)
        \o <<" ","m","o","r","e"," ","s","p","o","t","s"," ","a","v","a","i","l","a","b","l","e","."," ","⚡">>

ClaimEndsWith(s, suffix) ==
    /\ Len(suffix) <= Len(s)
    /\ SubSeq(s, Len(s) - Len(suffix) + 1, Len(s)) = suffix

\* C26: for a membership event the capacity notice is the plural phrase when
\* spots_remaining > 1, exactly the singular phrase when spots_remaining = 1,
\* and absent otherwise; a displacement notice is appended only when
\* spots_remaining is 0 and a displacement-candidate record is present, so
\* no bundle carries both notices; the display content ends with the two.
C26_CapacityNotice ==
    \A t \in Tasks :
        LET a == call[t].build_args
            b == loc[t].bundle
            n == a.spots_remaining
        IN  ClaimMembership(t)
            => /\ b.spots_info = IF n > 1 THEN ClaimPlural(n)
                                 ELSE IF n = 1 THEN ClaimSingular ELSE <<>>
               /\ b.headbutt_text # <<>>
                      => /\ n = 0
                         /\ GetOr(a.cyber_herd_item, S_headbutt_info, NoneValue).truthy
               /\ ~(b.spots_info # <<>> /\ b.headbutt_text # <<>>)
               /\ ClaimEndsWith(b.websocket_content, b.spots_info \o b.headbutt_text)
               /\ (n = 1 => ~Contains(b.nostr_content, ClaimPlural(1)))

\* a join with one spot left: the singular phrase closes the display content
C26_Witness ==
    \E t \in Tasks :
        /\ ClaimMembership(t)
        /\ call[t].build_args.spots_remaining = 1
        /\ HasKey(call[t].build_args.cyber_herd_item, S_headbutt_info)
        /\ loc[t].bundle.spots_info = ClaimSingular
        /\ ClaimEndsWith(loc[t].bundle.nostr_content, ClaimSingular)
        /\ loc[t].bundle.headbutt_text = <<>>

ClaimUnsupported(t) ==
    /\ BuildDone(t)
    /\ call[t].build_args.event_type \notin SupportedEventTypes

\* the structured payload carries the event type and every key of the item
ClaimFallbackPayload(content, a) ==
    /\ StartsWith(content, <<"{","\"","e","v","e","n","t","\"",":"," ","\"">> \o a.event_type
                               \o <<"\"",","," ","\"","p","a","y","l","o","a","d","\"",":"," ","{">>)
    /\ ClaimEndsWith(content, <<"}","}">>)
    /\ \A i \in 1..Len(a.cyber_herd_item) :
           Contains(content, <<"\"">> \o a.cyber_herd_item[i][1] \o <<"\"",":"," ">>)

\* C27: for every event_type outside the supported set, build_message
\* returns (never raises) a bundle whose protocol content and display
\* content are both the same structured fallback payload carrying the event
\* type and the raw item record.
C27_FallbackNeverRaises ==
    \A t \in Tasks :
        ClaimUnsupported(t)
            => /\ ~loc[t].bundle.raised
               /\ loc[t].bundle.nostr_content = loc[t].bundle.websocket_content
               /\ ClaimFallbackPayload(loc[t].bundle.nostr_content, call[t].build_args)

(* Claims on websocket mode *)

\* the call of t is render_and_publish_template with return_websocket_message
ClaimWebsocketCall(t) ==
    /\ Active(t)
    /\ "render_args" \in DOMAIN call[t]
    /\ call[t].render_args.return_websocket_message

\* C28: a render_and_publish_template call with return_websocket_message set
\* never invokes the signer or the relay transport and never reads the
\* publishing-enabled setting, whatever the template and the values: it is
\* finished in one step, nothing was handed to publish_note, and it returned
\* a (content, entity data) pair.
C28_WebsocketOnlyReturns ==
    \A t \in Tasks :
        ClaimWebsocketCall(t)
            => /\ Done(t) /\ loc[t].result = "Returned"
               /\ NothingInvoked(t)
               /\ loc[t].storedAtRead = None /\ ~loc[t].readRaised
               /\ loc[t].enabled = "None"
               /\ "content" \notin DOMAIN call[t]
               /\ loc[t].render.publish_args = NoArgs

\* with publishing enabled, a membership template was rendered for the
\* websocket and its content returned
C28_Witness ==
    \E t \in Tasks :
        /\ ClaimWebsocketCall(t)
        /\ ~DisabledBySetting(setting)
        /\ IsMembership(call[t].render_args.values)
        /\ loc[t].render.outcome = "websocket"
        /\ loc[t].render.returned_content # <<>>
        /\ loc[t].result = "Returned"

\* C29: in websocket mode the content returned by render_and_publish_template
\* is the requested template rendered with the supplied values, plus any
\* capacity or displacement notice, for every event type carried in the
\* values; it is never content rendered from a different template.
C29_RequestedTemplate ==
    \A t \in Tasks :
        (ClaimWebsocketCall(t) /\ loc[t].render.outcome = "websocket")
            => /\ StartsWith(loc[t].render.returned_content, loc[t].render.rendered.text)
               /\ loc[t].render.returned_content = loc[t].render.rendered_content

(* Claims on the publish endpoint *)

\* a finished request of POST /api/v1/publish by a user with the extension
\* enabled and a stored signing key
ClaimPublishRequest(t) ==
    /\ Done(t)
    /\ "api_args" \in DOMAIN call[t]
    /\ call[t].api_args.extension_enabled
    /\ Truthy(call[t].api_args.stored_key)

\* C30: POST /api/v1/publish, for a user with the extension enabled and a
\* stored signing key, hands the note to the publish dispatcher and answers
\* {published: true} whenever the dispatcher reports success; it answers
\* with an error only when the dispatcher reports failure.
C30_PublishEndpoint ==
    \A t \in Tasks :
        ClaimPublishRequest(t)
            => /\ "content" \in DOMAIN call[t]
               /\ call[t].content = call[t].api_args.payload.content
               /\ loc[t].result \in {"True", "False"}
               /\ loc[t].result = "True" => ApiAnswerOf(t) = ApiAnswer(200, "published")
               /\ ApiAnswerOf(t).status # 200 => loc[t].result = "False"

====
